---------------------------- MODULE Spec2Model ----------------------------
(***************************************************************************)
(* A model of the HMOSeeker crawl engine.                                  *)
(*                                                                         *)
(*   server/services/scraper.py                 get_html, cache_fresh,     *)
(*                                              scrape_primelocation       *)
(*   attached_assets/property_scraper_core_*.py HttpClient.get,            *)
(*                                              PropertyListing.key,       *)
(*                                              deduplicate                *)
(*                                                                         *)
(* The specifications share the module; each leaves the variables of the   *)
(* others at their initial values.                                         *)
(*   SpecFetch    one call of get_html or HttpClient.get, attempt by       *)
(*                attempt                                                  *)
(*   SpecCache    successive calls of scrape_primelocation against one     *)
(*                cache file, with the clock moving between the calls      *)
(*   SpecCrawl    one run of scrape_primelocation, step by step            *)
(*   SpecDedup    the two de-duplication passes applied to arbitrary lists *)
(*   SpecLimiter  the pool threads of scrape_properties calling            *)
(*                SimpleRateLimiter.wait for one host                      *)
(*   SpecStore    one run writing the cache file while another reads it    *)
(*   SpecFilter   the filters of scrape_primelocation on one record        *)
(*   SpecAssemble the sort and trim that end scrape_properties             *)
(*   SpecArea     the three area extractors on one text                    *)
(*                                                                         *)
(* Durations are in tenths of a second, clock values in hours.             *)
(***************************************************************************)
EXTENDS Integers, Sequences, FiniteSets, TLC

VARIABLES
    \* ---- one Fetch call (get_html / HttpClient.get)
    f_client,       \* "get_html" | "HttpClient"
    f_max,          \* max_attempts / self.max_retries
    f_cachedBody,   \* HttpClient: whether cached.get("body") is truthy
    f_pc,           \* "loop" | "returned" | "raised"
    f_attempt,      \* get_html: loop index; HttpClient: the attempt counter
    f_tries,        \* number of session.get calls issued so far
    f_last,         \* the response of the most recent try
    f_lastStatus,   \* get_html: last_status (0 stands for None)
    f_lastExc,      \* get_html: last_exc is not None
    f_sleep,        \* the most recent time.sleep argument (0: none yet)
    f_blocked,      \* the backoff delays of the Blocked (403/429) outcomes so far
    f_result,       \* what the call returned or raised ("pending" before)
    \* ---- successive calls of scrape_primelocation against one cache file
    k_now,          \* the clock (UTC), in hours
    k_tz,           \* the offset of the host's local time from UTC, in hours
    k_ttl,          \* PL_CACHE_TTL_HOURS
    k_file,         \* the cache file: exists, mtime (UTC hours), text (its JSON)
    k_n,            \* number of calls made so far
    k_prev,         \* the call before the most recent one
    k_last,         \* the most recent call
    \* ---- one de-duplication pass
    d_fn,           \* "scrape_primelocation" (step 4) | "deduplicate" (core)
    d_in,           \* the input list
    d_done,         \* whether the pass has run
    d_keep,         \* the positions of the input that the pass kept, in order
    \* ---- one run of scrape_primelocation
    c_pc,           \* "start" | "discover" | "listing" | "pool" | "done" | "raised"
    c_env,          \* REFRESH, PL_WORKERS, PL_CACHE_TTL_HOURS, the clock, the UTC offset
    c_file,         \* the cache file of the configuration
    c_q,            \* q, the deque of listing pages to visit
    c_seen,         \* seen_list_pages
    c_cur,          \* u, the listing page being fetched (0: none)
    c_links,        \* all_detail_links
    c_failed,       \* failed_attempts
    c_empty,        \* empty_in_a_row
    c_pages,        \* page_counter
    c_break,        \* the discovery loop was left by break
    c_limit,        \* max_workers of the ThreadPoolExecutor (0: no pool yet)
    c_fut,          \* the futures, one per detail link: state and outcome
    c_results,      \* results
    c_ret,          \* what the call returned: the records and meta["cached"]
    c_blocks,       \* how many fetches of the run ended Blocked (403/429)
    c_urlFailed,    \* whether some URL of the run failed to fetch
    c_cause,        \* why the run raised: "none" | "config" | "url"
    c_fetched,      \* per listing page: how many get_html calls the run made for it
    c_dry,          \* the search pages get_html returned last, in a row, without a link

    \* ---- the workers of scrape_properties calling SimpleRateLimiter.wait for one host
    r_delay,        \* self.per_host_delay
    r_clock,        \* time.time()
    r_last,         \* self._last.get(host, 0.0)
    r_pc,           \* per worker: "call" | "now" | "sleep" | "store"
    r_now,          \* per worker: the local now
    r_wake,         \* per worker: when its time.sleep ends
    r_calls,        \* per worker: how many wait calls have returned
    r_lastPermit,   \* when wait last returned, to any worker (-1: never)
    r_gap,          \* the shortest time between two returns of wait (-1: none yet)

    \* ---- one run writing the cache file while another run reads it
    s_env,          \* the reader's REFRESH, the clock, the UTC offset, PL_CACHE_TTL_HOURS
    s_file,         \* the cache file on disk: exists, mtime, text, whole (a complete JSON document)
    s_old,          \* the file as it was before either run touched it
    s_wrecs,        \* the writer's list unique
    s_wpc,          \* the writer: "ready" | "writing" | "closed"
    s_rpc,          \* the reader: "check" | "load" | "cached" | "crawl" | "raised"
    s_read,         \* what the reader's f.read() returned

    \* ---- the filters of the as_completed loop applied to one record
    x_rec,          \* rec, the dict fetch_and_parse returned
    x_cfg,          \* max_price_int, min_beds, filters.get("baths_min")
    x_pc,           \* "rec" | "kept" | "skipped"
    x_results,      \* results

    \* ---- the last step of scrape_properties: sort and trim
    a_in,           \* unique, as it is after the detail enrichment
    a_limit,        \* listing_limit
    a_pc,           \* "ready" | "returned"
    a_out,          \* the positions of a_in that are returned, in output order

    \* ---- one call of an area extractor
    g_fn,           \* "extract_area_sqm" | "extract_square_footage" | "extract_area_from_text"
    g_text,         \* the text: a figure with its unit, or one in each unit
    g_pc,           \* "call" | "returned"
    g_area,         \* the area returned, in hundredths of a square metre (-1: None)

    \* ---- one call of extract_price
    p_fn,           \* "core" | "scraper" | "scraper_working": the file of the function
    p_text,         \* the text, as the sequence of its space-separated tokens
    p_pc,           \* "call" | "returned"
    p_price,        \* the int returned, as the string of its decimal digits

    \* ---- one call of cache_path_for
    h_city,         \* city_slug
    h_beds,         \* min_beds
    h_price,        \* max_price (-1: None)
    h_filters,      \* filters: the dict, as its items in insertion order
    h_dirs,         \* the cache directories that exist
    h_pc,           \* "call" | "returned"
    h_path,         \* the path returned

    \* ---- one call of parse_details
    t_ld,           \* the JSON-LD object of the page: offer price, bedrooms, bathrooms
    t_text,         \* the text of the page, as the sequence of its tokens
    t_pc,           \* "call" | "returned"
    t_rec,          \* the price, bedrooms and bathrooms of the record returned

    \* ---- one call of collect_detail_links
    l_page,         \* the listing page: its anchors, its JSON-LD urls, the paths in its text
    l_pc,           \* "call" | "returned"
    l_links,        \* the list returned

    \* ---- scrape_properties from the early de-duplication on
    e_in,           \* all_listings
    e_n,            \* detail_enrich
    e_limit,        \* listing_limit
    e_pc,           \* "parsed" | "enrich" | "returned"
    e_orig,         \* unique as deduplicate returned it
    e_list,         \* unique, whose first listings the detail tasks change in place
    e_done,         \* the positions whose detail task has run
    e_out,          \* the list returned
    m_file,         \* the contents of the cache file
    m_backup,       \* the contents of the .backup file
    m_before,       \* the contents the cache file had when migrate_cache_file was called
    m_pc,           \* "call", "returned"
    m_ret,          \* what migrate_cache_file returned
    w_urls,             \* len(urls)
    w_url,              \* the URLs the loop has taken
    w_min_bedrooms,     \* min_bedrooms, 0 when falsy
    w_max_price,        \* max_price, 0 when falsy
    w_max_properties,   \* max_properties
    w_all_properties,   \* all_properties
    w_seen_addresses,   \* seen_addresses
    w_skipped,          \* a card that passed the criteria was left out for its address
    w_pc                \* "loop", "returned"

fetchVars == <<f_client, f_max, f_cachedBody, f_pc, f_attempt, f_tries, f_last,
               f_lastStatus, f_lastExc, f_sleep, f_blocked, f_result>>

cacheVars == <<k_now, k_tz, k_ttl, k_file, k_n, k_prev, k_last>>

dedupVars == <<d_fn, d_in, d_done, d_keep>>

crawlVars == <<c_pc, c_env, c_file, c_q, c_seen, c_cur, c_links, c_failed, c_empty,
               c_pages, c_break, c_limit, c_fut, c_results, c_ret, c_blocks,
               c_urlFailed, c_cause, c_fetched, c_dry>>

limiterVars == <<r_delay, r_clock, r_last, r_pc, r_now, r_wake, r_calls, r_lastPermit, r_gap>>

storeVars == <<s_env, s_file, s_old, s_wrecs, s_wpc, s_rpc, s_read>>

filterVars == <<x_rec, x_cfg, x_pc, x_results>>

assembleVars == <<a_in, a_limit, a_pc, a_out>>

areaVars == <<g_fn, g_text, g_pc, g_area>>

priceVars == <<p_fn, p_text, p_pc, p_price>>

keyVars == <<h_city, h_beds, h_price, h_filters, h_dirs, h_pc, h_path>>

detailsVars == <<t_ld, t_text, t_pc, t_rec>>

linksVars == <<l_page, l_pc, l_links>>

enrichVars == <<e_in, e_n, e_limit, e_pc, e_orig, e_list, e_done, e_out>>

migrateVars == <<m_file, m_backup, m_before, m_pc, m_ret>>

workingVars == <<w_urls, w_url, w_min_bedrooms, w_max_price, w_max_properties, w_all_properties, w_seen_addresses, w_skipped, w_pc>>

vars == <<fetchVars, cacheVars, dedupVars, crawlVars, limiterVars, storeVars, filterVars, assembleVars, areaVars, priceVars, keyVars, detailsVars, linksVars, enrichVars, migrateVars, workingVars>>

\* What the actions of one part leave alone.
notFetch == <<cacheVars, dedupVars, crawlVars, limiterVars, storeVars, filterVars, assembleVars, areaVars, priceVars, keyVars, detailsVars, linksVars, enrichVars, migrateVars, workingVars>>
notCache == <<fetchVars, dedupVars, crawlVars, limiterVars, storeVars, filterVars, assembleVars, areaVars, priceVars, keyVars, detailsVars, linksVars, enrichVars, migrateVars, workingVars>>
notDedup == <<fetchVars, cacheVars, crawlVars, limiterVars, storeVars, filterVars, assembleVars, areaVars, priceVars, keyVars, detailsVars, linksVars, enrichVars, migrateVars, workingVars>>
notCrawl == <<fetchVars, cacheVars, dedupVars, limiterVars, storeVars, filterVars, assembleVars, areaVars, priceVars, keyVars, detailsVars, linksVars, enrichVars, migrateVars, workingVars>>
notLimiter == <<fetchVars, cacheVars, dedupVars, crawlVars, storeVars, filterVars, assembleVars, areaVars, priceVars, keyVars, detailsVars, linksVars, enrichVars, migrateVars, workingVars>>
notStore == <<fetchVars, cacheVars, dedupVars, crawlVars, limiterVars, filterVars, assembleVars, areaVars, priceVars, keyVars, detailsVars, linksVars, enrichVars, migrateVars, workingVars>>
notFilter == <<fetchVars, cacheVars, dedupVars, crawlVars, limiterVars, storeVars, assembleVars, areaVars, priceVars, keyVars, detailsVars, linksVars, enrichVars, migrateVars, workingVars>>
notAssemble == <<fetchVars, cacheVars, dedupVars, crawlVars, limiterVars, storeVars, filterVars, areaVars, priceVars, keyVars, detailsVars, linksVars, enrichVars, migrateVars, workingVars>>
notArea == <<fetchVars, cacheVars, dedupVars, crawlVars, limiterVars, storeVars, filterVars, assembleVars, priceVars, keyVars, detailsVars, linksVars, enrichVars, migrateVars, workingVars>>
notPrice == <<fetchVars, cacheVars, dedupVars, crawlVars, limiterVars, storeVars, filterVars, assembleVars, areaVars, keyVars, detailsVars, linksVars, enrichVars, migrateVars, workingVars>>
notKey == <<fetchVars, cacheVars, dedupVars, crawlVars, limiterVars, storeVars, filterVars, assembleVars, areaVars, priceVars, detailsVars, linksVars, enrichVars, migrateVars, workingVars>>
notDetails == <<fetchVars, cacheVars, dedupVars, crawlVars, limiterVars, storeVars, filterVars, assembleVars, areaVars, priceVars, keyVars, linksVars, enrichVars, migrateVars, workingVars>>
notLinks == <<fetchVars, cacheVars, dedupVars, crawlVars, limiterVars, storeVars, filterVars, assembleVars, areaVars, priceVars, keyVars, detailsVars, enrichVars, migrateVars, workingVars>>
notEnrich == <<fetchVars, cacheVars, dedupVars, crawlVars, limiterVars, storeVars, filterVars, assembleVars, areaVars, priceVars, keyVars, detailsVars, linksVars, migrateVars, workingVars>>
notMigrate == <<fetchVars, cacheVars, dedupVars, crawlVars, limiterVars, storeVars, filterVars, assembleVars, areaVars, priceVars, keyVars, detailsVars, linksVars, enrichVars, workingVars>>
notWorking == <<fetchVars, cacheVars, dedupVars, crawlVars, limiterVars, storeVars, filterVars, assembleVars, areaVars, priceVars, keyVars, detailsVars, linksVars, enrichVars, migrateVars>>

\* ------------------------------------------------------------------ bounds

\* Largest max_attempts / max_retries a call is made with (the defaults are 4 and 5).
MaxAttempts == 5

\* SpecCache: the last hour the clock reaches, and the number of calls made.
MaxClock == 13
MaxCalls == 2

\* SpecDedup: the longest input list.
MaxList == 2

\* SpecCrawl: the tunables the run reads from the environment, at small values
\* (PL_WORKERS ranges over 0..MaxWorkers; the defaults are 16, 15000, 15000, 800, 8).
MaxWorkers == 3
TargetMinResults == 2
MaxFetch == 2
MaxListPagesTotal == 3
StopAfterEmptyPages == 2

\* SpecLimiter: the threads calling wait, the calls each makes, the last clock value.
MaxWaiters == 2
MaxWaits == 2
MaxWaitClock == 16

\* SpecAssemble: the longest list handed to the sort.
MaxAssemble == 3

\* SpecArea: the numbers that appear in the texts.
MinSqft == 940
MaxSqft == 1000

\* SpecPrice: the number of tokens of the longest text.
MaxTokens == 3

\* SpecKey: the number of items of the largest filters dict.
MaxFilters == 2

\* SpecDetails: the number of tokens of the longest page text.
MaxDetailTokens == 4

\* SpecLinks: the number of anchors, of JSON-LD urls and of text matches of a page.
MaxPageItems == 2

\* SpecEnrich: the number of listings parsed from the list pages.
MaxEnrich == 2
MaxProps == 2
MaxUrls == 2
MaxCards == 2

\* ------------------------------------------------------------------ helpers

RECURSIVE Pow2(_)
Pow2(n) == IF n <= 0 THEN 1 ELSE 2 * Pow2(n - 1)

Max(a, b) == IF a >= b THEN a ELSE b
Min(a, b) == IF a <= b THEN a ELSE b

\* ================================================================== Fetch

\* What one session.get can produce.  kind "neterr" is a requests.RequestException;
\* body says whether r.content is non-empty; ra is the Retry-After header
\* ("none": absent, "bad": not a number, "num": float(ra) = raval tenths of a second).
HttpStatuses == {200, 304, 403, 404, 429, 500, 501}

RetryAfterHeaders ==
    {[ra |-> "none", raval |-> 0], [ra |-> "bad", raval |-> 0],
     [ra |-> "num", raval |-> 10], [ra |-> "num", raval |-> 600],
     [ra |-> "num", raval |-> 0 - 10]}

Responses ==
    {[kind |-> "neterr", status |-> 0, body |-> FALSE, ra |-> "none", raval |-> 0]}
    \cup {[kind |-> "http", status |-> s, body |-> TRUE, ra |-> "none", raval |-> 0] :
             s \in HttpStatuses}
    \cup {[kind |-> "http", status |-> 200, body |-> FALSE, ra |-> "none", raval |-> 0]}
    \cup {[kind |-> "http", status |-> 429, body |-> TRUE, ra |-> h.ra, raval |-> h.raval] :
             h \in RetryAfterHeaders}

NoResponse == [kind |-> "none", status |-> 0, body |-> FALSE, ra |-> "none", raval |-> 0]

\* The taxonomy of the specification (section 4.3), by status code.
IsBlockedStatus(s) == s \in {403, 429}
IsTransientStatus(s) == s >= 500 /\ s <= 599
IsPermanentStatus(s) == s # 200 /\ ~IsBlockedStatus(s) /\ ~IsTransientStatus(s)

\* ---- get_html (scraper.py)

\* random.random() in [0, 1), in tenths of a second: its two extremes.
GetHtmlJitter == {0, 9}

\* The branch of the if / elif / else (and except) that a response takes.
GetHtmlBranch(r) ==
    IF r.kind = "neterr" THEN "except"
    ELSE IF r.status = 200 /\ r.body THEN "return"
    ELSE IF r.status \in {403, 429} THEN "blocked"
    ELSE "other"

\* backoff_time = 1.0 + (attempt * 0.8) + random.random(), without the jitter.
GetHtmlBackoffBase_Flat(attempt) == 10 - (attempt * 8)

GetHtmlBackoffBase(attempt) == 10 + (attempt * 8)

\* time.sleep(0.2 + attempt * 0.2) and time.sleep(1.0 + attempt * 1.0).
GetHtmlOtherSleep(attempt) == 2 + attempt * 2
GetHtmlExceptSleep(attempt) == 10 + attempt * 10

\* The loop header "for attempt in range(max_attempts)": is there another iteration.
GetHtmlLoopGuard(attempt, max) == attempt < max

\* One iteration of the for loop, from with_proxy to the continue / return.
GetHtmlAttempt(r, j) ==
    /\ f_client = "get_html"
    /\ f_pc = "loop"
    /\ GetHtmlLoopGuard(f_attempt, f_max)
    /\ f_tries' = f_tries + 1
    /\ f_last' = r
    /\ LET br == GetHtmlBranch(r) IN
       /\ f_lastStatus' = IF r.kind = "http" THEN r.status ELSE f_lastStatus
       /\ f_lastExc' = (f_lastExc \/ br = "except")
       /\ IF br = "return"
          THEN /\ f_pc' = "returned"
               /\ f_result' = "text"
               /\ UNCHANGED <<f_attempt, f_sleep, f_blocked>>
          ELSE /\ f_pc' = "loop"
               /\ f_attempt' = f_attempt + 1
               /\ f_result' = f_result
               /\ f_sleep' = CASE br = "blocked" -> GetHtmlBackoffBase(f_attempt) + j
                               [] br = "other" -> GetHtmlOtherSleep(f_attempt)
                               [] OTHER -> GetHtmlExceptSleep(f_attempt)
               /\ f_blocked' =
                    IF br = "blocked"
                    THEN Append(f_blocked, [base |-> GetHtmlBackoffBase(f_attempt),
                                            jitter |-> j, src |-> "formula"])
                    ELSE f_blocked
    /\ UNCHANGED <<f_client, f_max, f_cachedBody>>
    /\ UNCHANGED notFetch

\* The code after the loop: raise with the last status, else the last exception.
GetHtmlExhausted ==
    /\ f_client = "get_html"
    /\ f_pc = "loop"
    /\ ~GetHtmlLoopGuard(f_attempt, f_max)
    /\ f_pc' = "raised"
    /\ f_result' = IF f_lastStatus # 0 THEN "RuntimeError_status"
                   ELSE IF f_lastExc THEN "last_exc"
                   ELSE "RuntimeError"
    /\ UNCHANGED <<f_client, f_max, f_cachedBody, f_attempt, f_tries, f_last,
                   f_lastStatus, f_lastExc, f_sleep, f_blocked>>
    /\ UNCHANGED notFetch

\* ---- HttpClient.get (property_scraper_core)

DEFAULT_BACKOFF_FACTOR == 7

\* random.uniform(0.2, 0.6), in tenths of a second: its two extremes.
HttpClientJitter == {2, 6}

\* "if status in (429, 500, 502, 503, 504, 520, 522)"
HttpClientRetryable(status) == status \in {429, 500, 502, 503, 504, 520, 522}

\* sleep_s before the jitter: float(Retry-After) when the header parses, else
\* (2 ** attempt) * self.backoff_factor, attempt being already incremented.
HttpClientBackoffBase(r, attempt) ==
    IF r.ra = "num" THEN r.raval ELSE Pow2(attempt) * DEFAULT_BACKOFF_FACTOR

\* "attempt += 1" of the retry branch and of the except branch.
HttpClientNextAttempt_Stuck(attempt, r) == IF r.kind = "neterr" THEN attempt ELSE attempt + 1

HttpClientNextAttempt(attempt, r) == attempt + 1

\* One iteration of "while attempt < self.max_retries".
HttpClientAttempt(r, j) ==
    /\ f_client = "HttpClient"
    /\ f_pc = "loop"
    /\ f_attempt < f_max
    /\ f_tries' = f_tries + 1
    /\ f_last' = r
    /\ UNCHANGED <<f_client, f_max, f_cachedBody, f_lastStatus, f_lastExc>>
    /\ IF r.kind = "neterr"
       THEN /\ f_attempt' = HttpClientNextAttempt(f_attempt, r)
            /\ f_sleep' = Pow2(f_attempt') * DEFAULT_BACKOFF_FACTOR + j
            /\ UNCHANGED <<f_pc, f_blocked, f_result>>
       ELSE IF r.status = 200
       THEN /\ f_pc' = "returned"
            /\ f_result' = "resp"
            /\ UNCHANGED <<f_attempt, f_sleep, f_blocked>>
       ELSE IF r.status = 304 /\ f_cachedBody
       THEN /\ f_pc' = "returned"
            /\ f_result' = "None"
            /\ UNCHANGED <<f_attempt, f_sleep, f_blocked>>
       ELSE IF HttpClientRetryable(r.status)
       THEN /\ f_attempt' = HttpClientNextAttempt(f_attempt, r)
            /\ LET base == HttpClientBackoffBase(r, f_attempt')
                   slp == base + j
               IN  /\ f_sleep' = slp
                   /\ f_blocked' =
                        IF IsBlockedStatus(r.status)
                        THEN Append(f_blocked,
                                    [base |-> base, jitter |-> j,
                                     src |-> IF r.ra = "num" THEN "retry_after"
                                             ELSE "formula"])
                        ELSE f_blocked
                   \* time.sleep raises ValueError on a negative length, and the
                   \* except clause catches requests.RequestException only
                   /\ IF slp < 0
                      THEN f_pc' = "raised" /\ f_result' = "ValueError"
                      ELSE UNCHANGED <<f_pc, f_result>>
       ELSE /\ f_pc' = "returned"
            /\ f_result' = "resp"
            /\ UNCHANGED <<f_attempt, f_sleep, f_blocked>>
    /\ UNCHANGED notFetch

\* The code after the while loop: logging.error and "return None".
HttpClientExhausted ==
    /\ f_client = "HttpClient"
    /\ f_pc = "loop"
    /\ f_attempt >= f_max
    /\ f_pc' = "returned"
    /\ f_result' = "None"
    /\ UNCHANGED <<f_client, f_max, f_cachedBody, f_attempt, f_tries, f_last,
                   f_lastStatus, f_lastExc, f_sleep, f_blocked>>
    /\ UNCHANGED notFetch

FetchIdle ==
    /\ f_client = "none"
    /\ f_max = 0
    /\ f_cachedBody = FALSE
    /\ f_pc = "idle"
    /\ f_attempt = 0
    /\ f_tries = 0
    /\ f_last = NoResponse
    /\ f_lastStatus = 0
    /\ f_lastExc = FALSE
    /\ f_sleep = 0
    /\ f_blocked = <<>>
    /\ f_result = "pending"

InitFetch ==
    /\ f_client \in {"get_html", "HttpClient"}
    /\ f_max \in 0..MaxAttempts
    /\ f_cachedBody \in (IF f_client = "HttpClient" THEN BOOLEAN ELSE {FALSE})
    /\ f_pc = "loop"
    /\ f_attempt = 0
    /\ f_tries = 0
    /\ f_last = NoResponse
    /\ f_lastStatus = 0
    /\ f_lastExc = FALSE
    /\ f_sleep = 0
    /\ f_blocked = <<>>
    /\ f_result = "pending"

NextFetch ==
    \/ \E r \in Responses, j \in GetHtmlJitter : GetHtmlAttempt(r, j)
    \/ GetHtmlExhausted
    \/ \E r \in Responses, j \in HttpClientJitter : HttpClientAttempt(r, j)
    \/ HttpClientExhausted


\* ================================================================== Cache

\* ---- the records of scrape_primelocation (the dicts parse_details returns, with
\* property_url added by fetch_and_parse).  An Optional[int] that is None is
\* written -1.  A URL is its path (a listing number) and its query string.
Url(p, q) == [path |-> p, query |-> q]

Listing(u, price, beds, baths, a4) ==
    [property_url |-> u, price |-> price, bedrooms |-> beds, bathrooms |-> baths,
     article4 |-> a4]

RecA == Listing(Url(1, ""), 250, 4, 2, FALSE)
RecB == Listing(Url(2, ""), 300, 5, -1, FALSE)

\* ---- json.dump / json.load of a list of such dicts: a dict becomes the list of
\* its members in insertion order, None becomes null.
JsonOptInt(v) == IF v = -1 THEN [t |-> "null", n |-> 0] ELSE [t |-> "number", n |-> v]
PyOptInt(j) == IF j.t = "null" THEN -1 ELSE j.n

JsonObject(rec) ==
    <<[k |-> "price", v |-> JsonOptInt(rec.price)],
      [k |-> "bedrooms", v |-> JsonOptInt(rec.bedrooms)],
      [k |-> "bathrooms", v |-> JsonOptInt(rec.bathrooms)],
      [k |-> "article4", v |-> [t |-> IF rec.article4 THEN "true" ELSE "false", n |-> 0]],
      [k |-> "property_url", v |-> [t |-> "string", n |-> rec.property_url.path,
                                    q |-> rec.property_url.query]]>>

Member(obj, key) == (CHOOSE m \in {obj[i] : i \in 1..Len(obj)} : m.k = key).v

PyDict(obj) ==
    [property_url |-> Url(Member(obj, "property_url").n, Member(obj, "property_url").q),
     price |-> PyOptInt(Member(obj, "price")),
     bedrooms |-> PyOptInt(Member(obj, "bedrooms")),
     bathrooms |-> PyOptInt(Member(obj, "bathrooms")),
     article4 |-> (Member(obj, "article4").t = "true")]

JsonDump(recs) == [i \in 1..Len(recs) |-> JsonObject(recs[i])]
JsonLoad(text) == [i \in 1..Len(text) |-> PyDict(text[i])]

\* ---- cache_fresh(path): datetime.fromtimestamp(mtime) is the modification time
\* as local wall-clock time, datetime.utcnow() is the clock as UTC; both are naive
\* and are subtracted as they are.
CacheFresh(file, now, tz, ttl) ==
    /\ file.exists
    /\ now - (file.mtime + tz) < ttl

\* "if not os.getenv("REFRESH") and cache_fresh(cache_file)"
UseCache(refresh, file, now, tz, ttl) == ~refresh /\ CacheFresh(file, now, tz, ttl)

\* What a crawl (steps 1 to 4 of scrape_primelocation) can end with: the list
\* unique and the number of get_html calls made; raised: ThreadPoolExecutor
\* rejected PL_WORKERS.  SpecCrawl follows one crawl step by step.
CrawlOutcomes ==
    {[raised |-> FALSE, recs |-> <<>>, net |-> 1],
     [raised |-> FALSE, recs |-> <<RecA>>, net |-> 2],
     [raised |-> FALSE, recs |-> <<RecB, RecA>>, net |-> 3],
     [raised |-> TRUE, recs |-> <<>>, net |-> 1]}

NoFile == [exists |-> FALSE, mtime |-> 0, text |-> <<>>]

NoCall == [at |-> 0, refresh |-> FALSE, existed |-> FALSE, mtimeBefore |-> 0,
           checked |-> FALSE, fresh |-> FALSE, raised |-> FALSE, cached |-> FALSE,
           net |-> 0, recs |-> <<>>]

\* One call of scrape_primelocation(city, min_bedrooms, max_price, keywords_blob),
\* always with the same arguments: refresh is whether REFRESH is set, out is what
\* the crawl ends with if it runs.
ScrapeCall(refresh, out) ==
    /\ k_n < MaxCalls
    /\ k_n' = k_n + 1
    /\ k_prev' = k_last
    /\ LET hit == UseCache(refresh, k_file, k_now, k_tz, k_ttl)
           log == [at |-> k_now, refresh |-> refresh, existed |-> k_file.exists,
                   mtimeBefore |-> k_file.mtime, checked |-> ~refresh,
                   fresh |-> (~refresh /\ CacheFresh(k_file, k_now, k_tz, k_ttl)),
                   raised |-> FALSE, cached |-> FALSE, net |-> 0, recs |-> <<>>]
       IN  IF hit
           THEN /\ k_last' = [log EXCEPT !.cached = TRUE,
                                         !.recs = JsonLoad(k_file.text)]
                /\ k_file' = k_file
           ELSE IF out.raised
           THEN /\ k_last' = [log EXCEPT !.raised = TRUE, !.net = out.net]
                /\ k_file' = k_file
           ELSE /\ k_last' = [log EXCEPT !.net = out.net, !.recs = out.recs]
                /\ k_file' = [exists |-> TRUE, mtime |-> k_now,
                              text |-> JsonDump(out.recs)]
    /\ UNCHANGED <<k_now, k_tz, k_ttl>>
    /\ UNCHANGED notCache

\* An hour passes between two calls.
Tick ==
    /\ k_n < MaxCalls
    /\ k_now < MaxClock
    /\ k_now' = k_now + 1
    /\ UNCHANGED <<k_tz, k_ttl, k_file, k_n, k_prev, k_last>>
    /\ UNCHANGED notCache

\* Offsets of local time from UTC: New York (winter), UTC, Belgrade (summer).
TzOffsets == {0 - 5, 0, 2}

CacheIdle ==
    /\ k_now = 0
    /\ k_tz = 0
    /\ k_ttl = 0
    /\ k_file = NoFile
    /\ k_n = 0
    /\ k_prev = NoCall
    /\ k_last = NoCall

InitCache ==
    /\ k_now = 0
    /\ k_tz \in TzOffsets
    /\ k_ttl \in {1, 12}
    /\ k_file \in {NoFile, [exists |-> TRUE, mtime |-> 0, text |-> JsonDump(<<RecB>>)]}
    /\ k_n = 0
    /\ k_prev = NoCall
    /\ k_last = NoCall

NextCache ==
    \/ \E refresh \in BOOLEAN, out \in CrawlOutcomes : ScrapeCall(refresh, out)
    \/ Tick


\* ================================================================== Dedup

\* ---- the fields of a record that the two passes and their callers look at.
\* scrape_primelocation holds dicts, deduplicate holds PropertyListing objects;
\* both carry property_url, price and bedrooms.  A title is a string, written as
\* the sequence of its characters.
Titles == {<<"A", " ">>, <<"a">>, <<"a", " ", " ", "b">>}

DedupRecords ==
    [property_url : {Url(1, ""), Url(1, "utm")},
     price : {0, 250},
     bedrooms : {-1, 4},
     title : Titles,
     listing_id : {-1, 7}]

\* href.split("?")[0] / canonicalize_url(u): the URL without its query string.
NormalizeUrl(u) == [u EXCEPT !.query = ""]

\* str.lower, str.strip and re.sub(r"\s+", " ", ...) on a title.
LowerChar(c) == IF c = "A" THEN "a" ELSE IF c = "B" THEN "b" ELSE c

Lower(t) == [i \in 1..Len(t) |-> LowerChar(t[i])]

RECURSIVE LStrip(_)
LStrip(t) == IF t # <<>> /\ Head(t) = " " THEN LStrip(Tail(t)) ELSE t

RECURSIVE RStrip(_)
RStrip(t) ==
    IF t # <<>> /\ t[Len(t)] = " " THEN RStrip(SubSeq(t, 1, Len(t) - 1)) ELSE t

Strip(t) == RStrip(LStrip(t))

RECURSIVE CollapseSpaces(_)
CollapseSpaces(t) ==
    IF Len(t) < 2 THEN t
    ELSE IF t[1] = " " /\ t[2] = " " THEN CollapseSpaces(Tail(t))
    ELSE <<t[1]>> \o CollapseSpaces(Tail(t))

\* PropertyListing.key(): (ntitle, int(self.price or 0), self.listing_id)
ListingKey(l) ==
    <<CollapseSpaces(Lower(Strip(l.title))), (IF l.price = -1 THEN 0 ELSE l.price),
      l.listing_id>>

\* scrape_primelocation: sig = (r.get("property_url"), r.get("price"), r.get("bedrooms"))
RecordSig(r) == <<r.property_url, r.price, r.bedrooms>>

\* The key each pass computes for a record.
DedupKey(fn, r) == IF fn = "deduplicate" THEN ListingKey(r) ELSE RecordSig(r)

\* "seen.add(sig)" / "seen.add(k)"
SeenAdd_Forgotten(seen, k) == seen

SeenAdd(seen, k) == seen \cup {k}

\* The loop "for r in results: ..." from position i on: the positions appended to
\* unique, given the keys seen so far.
RECURSIVE DedupFrom(_, _, _, _)
DedupFrom(fn, list, i, seen) ==
    IF i > Len(list) THEN <<>>
    ELSE LET k == DedupKey(fn, list[i]) IN
         IF k \in seen
         THEN DedupFrom(fn, list, i + 1, seen)
         ELSE <<i>> \o DedupFrom(fn, list, i + 1, SeenAdd(seen, k))

DedupKeep_NewestFirst(fn, list) ==
    LET keep == DedupFrom(fn, list, 1, {})
    IN  [n \in 1..Len(keep) |-> keep[Len(keep) + 1 - n]]

DedupKeep(fn, list) == DedupFrom(fn, list, 1, {})

\* The list unique that the pass builds.
Dedup(fn, list) ==
    LET keep == DedupKeep(fn, list) IN [n \in 1..Len(keep) |-> list[keep[n]]]

\* The pass runs on the input.
RunDedup ==
    /\ ~d_done
    /\ d_done' = TRUE
    /\ d_keep' = DedupKeep(d_fn, d_in)
    /\ UNCHANGED <<d_fn, d_in>>
    /\ UNCHANGED notDedup

ListsUpTo(S, n) == UNION {[1..m -> S] : m \in 0..n}

DedupIdle ==
    /\ d_fn = "none"
    /\ d_in = <<>>
    /\ d_done = FALSE
    /\ d_keep = <<>>

InitDedup ==
    /\ d_fn \in {"scrape_primelocation", "deduplicate"}
    /\ d_in \in ListsUpTo(DedupRecords, MaxList)
    /\ d_done = FALSE
    /\ d_keep = <<>>

NextDedup == RunDedup

\* ================================================================== Crawl

\* ---- the site, as scrape_primelocation sees it

\* build_search_urls(...): the listing pages the run starts from, in order.
SeedPages == <<1, 2, 3>>

\* The detail URLs the listing pages link to.  Listing 2 is linked twice: from an
\* anchor (query stripped) and from a JSON-LD block (URL taken as it stands).
U1 == Url(1, "")
U2 == Url(2, "")
U2q == Url(2, "utm")

\* The listing pages of the site: the three of build_search_urls and one more
\* that pagination links lead to.
ListingPages == 1..4

\* collect_detail_links(html) and discover_more_pages(html, u) of a fetched page.
LinkLists == {<<>>, <<U1>>, <<U1, U2>>, <<U2, U2q>>}
ExtraPageLists == {<<>>, <<1, 4>>}

\* How a get_html call that does not return ends: RuntimeError with a final
\* status of 403/429 ("blocked"), or the last requests.RequestException ("network").
FetchFailures == {"blocked", "network"}

\* parse_details(html) of a detail page, with property_url set: a listing within
\* the filters, one above max_price, and one whose page shows no price (price is
\* 0) and no bathrooms.
ParsedRecords(u) ==
    {Listing(u, 250, 4, 2, FALSE), Listing(u, 500, 4, 2, FALSE), Listing(u, 0, 4, -1, FALSE)}

NoRecord == Listing(Url(0, ""), -1, -1, -1, FALSE)

DetailOutcomes(u) ==
    {[kind |-> k, rec |-> NoRecord] : k \in FetchFailures}
    \cup {[kind |-> "ok", rec |-> r] : r \in ParsedRecords(u)}

AllDetailOutcomes == UNION {DetailOutcomes(u) : u \in {U1, U2, U2q}}

\* The arguments of the call: max_price_int, min_beds, filters.get("baths_min").
Config == [max_price |-> 400, min_beds |-> 3, baths_min |-> -1]

\* ---- helpers of the run

\* list(dict.fromkeys(xs)): xs without repetitions, first occurrences kept.
RECURSIVE Uniq(_)
Uniq(xs) ==
    IF xs = <<>> THEN <<>>
    ELSE LET rest == Uniq(SubSeq(xs, 1, Len(xs) - 1))
             x == xs[Len(xs)]
         IN  IF \E i \in 1..Len(rest) : rest[i] = x THEN rest ELSE Append(rest, x)

\* [nu for nu in extra_pages if nu not in seen_list_pages]
RECURSIVE Unseen(_, _)
Unseen(xs, seen) ==
    IF xs = <<>> THEN <<>>
    ELSE IF Head(xs) \in seen THEN Unseen(Tail(xs), seen)
    ELSE <<Head(xs)>> \o Unseen(Tail(xs), seen)

\* Python truth of an Optional[int].
Truthy(n) == n # -1 /\ n # 0

\* The filters of the as_completed loop: TRUE when the record is kept.
PassesFilters_NoArticle4(rec, cfg) ==
    /\ ~(Truthy(cfg.max_price) /\ Truthy(rec.price) /\ rec.price > cfg.max_price)
    /\ ~(Truthy(cfg.min_beds)
         /\ (IF rec.bedrooms = -1 THEN 0 ELSE rec.bedrooms) < cfg.min_beds)
    /\ ~(cfg.baths_min # -1 /\ rec.bathrooms # -1 /\ rec.bathrooms < cfg.baths_min)

PassesFilters(rec, cfg) ==
    /\ ~(Truthy(cfg.max_price) /\ Truthy(rec.price) /\ rec.price > cfg.max_price)
    /\ ~(Truthy(cfg.min_beds)
         /\ (IF rec.bedrooms = -1 THEN 0 ELSE rec.bedrooms) < cfg.min_beds)
    /\ ~(cfg.baths_min # -1 /\ rec.bathrooms # -1 /\ rec.bathrooms < cfg.baths_min)
    /\ ~rec.article4

\* "while q and len(all_detail_links) < target_min_results
\*        and len(seen_list_pages) < MAX_LIST_PAGES_TOTAL"
DiscoveryGoesOn(q, links, seen) ==
    /\ q # <<>>
    /\ Len(links) < TargetMinResults
    /\ Cardinality(seen) < MaxListPagesTotal

\* "except Exception as e: ... continue" of the listing loop and "except Exception
\* as e: ... return None" of fetch_and_parse: what becomes of a failed fetch.
ListingExcept_RequestsOnly(kind) == IF kind = "network" THEN "continue" ELSE "raise"

ListingExcept(kind) == "continue"

WorkerExcept(kind) == "none"

\* ThreadPoolExecutor(max_workers=workers): the size of the pool, and whether a
\* queued task may start when running tasks are already under way.
PoolSize_Halved(workers) == workers \div 2

PoolSize(workers) == workers

PoolAdmits_OneMore(running, limit) == running <= limit

PoolAdmits(running, limit) == running < limit

Running == Cardinality({i \in 1..Len(c_fut) : c_fut[i].st = "running"})

\* Fetches under way: the listing page of the main thread and the running workers.
InFlight == (IF c_pc = "listing" THEN 1 ELSE 0) + Running

NoReturn == [recs |-> <<>>, cached |-> FALSE]

\* ---- the run

\* Lines 755-773 and 775-795: the cache test; a fresh entry is returned as it is.
CacheCheck ==
    /\ c_pc = "start"
    /\ IF UseCache(c_env.refresh, c_file, c_env.now, c_env.tz, c_env.ttl)
       THEN /\ c_pc' = "done"
            /\ c_ret' = [recs |-> JsonLoad(c_file.text), cached |-> TRUE]
            /\ UNCHANGED c_q
       ELSE /\ c_pc' = "discover"
            /\ c_q' = SeedPages
            /\ UNCHANGED c_ret
    /\ UNCHANGED <<c_env, c_file, c_seen, c_cur, c_links, c_failed, c_empty, c_pages,
                   c_break, c_limit, c_fut, c_results, c_blocks, c_urlFailed, c_cause>>
    /\ UNCHANGED <<c_fetched, c_dry>>
    /\ UNCHANGED notCrawl

\* Lines 797-802: the head of the queue is taken; a page already seen is skipped,
\* a new one is claimed and its fetch begins.
ListingDequeue ==
    /\ c_pc = "discover"
    /\ ~c_break
    /\ DiscoveryGoesOn(c_q, c_links, c_seen)
    /\ c_q' = Tail(c_q)
    /\ IF Head(c_q) \in c_seen
       THEN UNCHANGED <<c_pc, c_seen, c_cur, c_pages, c_fetched>>
       ELSE /\ c_seen' = c_seen \cup {Head(c_q)}
            /\ c_pages' = c_pages + 1
            /\ c_cur' = Head(c_q)
            /\ c_fetched' = [c_fetched EXCEPT ![Head(c_q)] = @ + 1]
            /\ c_pc' = "listing"
    /\ UNCHANGED <<c_env, c_file, c_links, c_failed, c_empty, c_break, c_limit, c_fut,
                   c_results, c_ret, c_blocks, c_urlFailed, c_cause, c_dry>>
    /\ UNCHANGED notCrawl

\* "all_detail_links.extend(links)" alone, and followed by
\* "all_detail_links = list(dict.fromkeys(all_detail_links))".
MergeLinks_Extend(all, links) == all \o links

MergeLinks(all, links) == Uniq(all \o links)

\* Lines 806-833: get_html returned the page.
ListingOk(links, extra) ==
    /\ c_pc = "listing"
    /\ c_pc' = "discover"
    /\ c_cur' = 0
    /\ c_links' = MergeLinks(c_links, links)
    /\ c_q' = c_q \o Unseen(extra, c_seen)
    /\ c_failed' = 0
    /\ IF links = <<>>
       THEN /\ c_empty' = c_empty + 1
            /\ c_break' = (c_empty + 1 >= StopAfterEmptyPages)
       ELSE /\ c_empty' = 0
            /\ UNCHANGED c_break
    /\ UNCHANGED <<c_env, c_file, c_seen, c_pages, c_limit, c_fut, c_results, c_ret,
                   c_blocks, c_urlFailed, c_cause>>
    /\ UNCHANGED c_fetched
    /\ c_dry' = IF links = <<>> THEN c_dry + 1 ELSE 0
    /\ UNCHANGED notCrawl

\* What the fallback loop of lines 840-852 ends with: how many of the first three
\* search URLs it fetched, the links of the last of them if it had any, how many
\* of the tries ended Blocked, and how many pages in a row, up to the end of the
\* loop, get_html returned without a link in them.
FallbackNone == [links |-> <<>>, blocked |-> 0, tries |-> 3, empty |-> 0]

FallbackOutcomes ==
    {FallbackNone, [links |-> <<>>, blocked |-> 3, tries |-> 3, empty |-> 0],
     [links |-> <<>>, blocked |-> 0, tries |-> 3, empty |-> 3],
     [links |-> <<U1>>, blocked |-> 0, tries |-> 1, empty |-> 0],
     [links |-> <<U1, U2>>, blocked |-> 1, tries |-> 2, empty |-> 0]}

\* The get_html calls of one pass of the fallback loop, added to the count.
FallbackFetches(fetched, tries) ==
    [p \in DOMAIN fetched |->
        fetched[p] + Cardinality({j \in 1..tries : SeedPages[j] = p})]

\* Lines 835-853: get_html raised.  After three failures in a row with no link
\* found yet, the first three search URLs are tried again.
ListingFail(kind, fb) ==
    /\ c_pc = "listing"
    /\ c_cur' = 0
    /\ c_failed' = c_failed + 1
    /\ c_urlFailed' = TRUE
    /\ c_dry' = fb.empty
    /\ IF ListingExcept(kind) = "continue"
       THEN /\ c_pc' = "discover"
            /\ UNCHANGED c_cause
            /\ IF c_failed + 1 >= 3 /\ Len(c_links) = 0
               THEN /\ c_links' = c_links \o fb.links
                    /\ c_fetched' = FallbackFetches(c_fetched, fb.tries)
                    /\ c_blocks' = c_blocks + (IF kind = "blocked" THEN 1 ELSE 0)
                                            + fb.blocked
               ELSE /\ fb = FallbackNone
                    /\ c_blocks' = c_blocks + (IF kind = "blocked" THEN 1 ELSE 0)
                    /\ UNCHANGED <<c_links, c_fetched>>
       ELSE /\ fb = FallbackNone
            /\ c_pc' = "raised"
            /\ c_cause' = "url"
            /\ UNCHANGED <<c_links, c_blocks, c_fetched>>
    /\ UNCHANGED <<c_env, c_file, c_q, c_seen, c_empty, c_pages, c_break, c_limit,
                   c_fut, c_results, c_ret>>
    /\ UNCHANGED notCrawl

\* detail_links = all_detail_links[:max_fetch], without the cut and with it.
CapLinks_Uncapped(links, max_fetch) == links

CapLinks(links, max_fetch) == SubSeq(links, 1, Min(max_fetch, Len(links)))

\* Lines 855-879: the loop is over; the links are capped, the pool is created and
\* a task is submitted per link.  ThreadPoolExecutor raises ValueError when
\* max_workers <= 0.  The locals of the discovery loop are not read again and
\* are dropped here.
DiscoveryStop ==
    /\ c_pc = "discover"
    /\ c_break \/ ~DiscoveryGoesOn(c_q, c_links, c_seen)
    /\ LET detail_links == CapLinks(c_links, MaxFetch) IN
       /\ UNCHANGED c_links
       /\ IF c_env.workers <= 0
          THEN /\ c_pc' = "raised"
               /\ c_cause' = "config"
               /\ UNCHANGED <<c_limit, c_fut>>
          ELSE /\ c_pc' = "pool"
               /\ c_limit' = PoolSize(c_env.workers)
               /\ c_fut' = [i \in 1..Len(detail_links) |->
                               [url |-> detail_links[i], st |-> "pending",
                                out |-> [kind |-> "none", rec |-> NoRecord]]]
               /\ UNCHANGED c_cause
    /\ c_q' = <<>>
    /\ c_seen' = {}
    /\ c_failed' = 0
    /\ c_empty' = 0
    /\ c_pages' = 0
    /\ c_break' = FALSE
    /\ UNCHANGED <<c_env, c_file, c_cur, c_results, c_ret, c_blocks, c_urlFailed>>
    /\ UNCHANGED c_fetched
    /\ c_dry' = 0
    /\ UNCHANGED notCrawl

\* A worker thread of the pool takes the next queued task (fetch_and_parse).
WorkerStart(i) ==
    /\ c_pc = "pool"
    /\ i \in 1..Len(c_fut)
    /\ c_fut[i].st = "pending"
    /\ \A k \in 1..(i - 1) : c_fut[k].st # "pending"
    /\ PoolAdmits(Running, c_limit)
    /\ c_fut' = [c_fut EXCEPT ![i].st = "running"]
    /\ UNCHANGED <<c_pc, c_env, c_file, c_q, c_seen, c_cur, c_links, c_failed, c_empty,
                   c_pages, c_break, c_limit, c_results, c_ret, c_blocks, c_urlFailed,
                   c_cause>>
    /\ UNCHANGED <<c_fetched, c_dry>>
    /\ UNCHANGED notCrawl

\* Lines 865-876: fetch_and_parse ends, with the record or, get_html having
\* raised, with None.
WorkerFinish(i, out) ==
    /\ c_pc = "pool"
    /\ i \in 1..Len(c_fut)
    /\ c_fut[i].st = "running"
    /\ out \in DetailOutcomes(c_fut[i].url)
    /\ c_blocks' = c_blocks + (IF out.kind = "blocked" THEN 1 ELSE 0)
    /\ c_urlFailed' = (c_urlFailed \/ out.kind # "ok")
    /\ IF out.kind = "ok" \/ WorkerExcept(out.kind) = "none"
       THEN /\ c_fut' = [c_fut EXCEPT ![i].st = "finished", ![i].out = out]
            /\ UNCHANGED <<c_pc, c_cause>>
       ELSE /\ c_pc' = "raised"
            /\ c_cause' = "url"
            /\ UNCHANGED c_fut
    /\ UNCHANGED <<c_env, c_file, c_q, c_seen, c_cur, c_links, c_failed, c_empty,
                   c_pages, c_break, c_limit, c_results, c_ret>>
    /\ UNCHANGED <<c_fetched, c_dry>>
    /\ UNCHANGED notCrawl

\* "results.append(rec)" in the main thread, and a write that keeps the last
\* record only.
ResultsAppend_LastOnly(results, rec) == <<rec>>

ResultsAppend(results, rec) == Append(results, rec)

\* Lines 880-914: as_completed hands a finished future to the main thread, which
\* filters its record and appends it to results.
CollectResult(i) ==
    /\ c_pc = "pool"
    /\ i \in 1..Len(c_fut)
    /\ c_fut[i].st = "finished"
    /\ c_fut' = [c_fut EXCEPT ![i].st = "collected"]
    /\ c_results' = IF c_fut[i].out.kind = "ok" /\ PassesFilters(c_fut[i].out.rec, Config)
                    THEN ResultsAppend(c_results, c_fut[i].out.rec)
                    ELSE c_results
    /\ UNCHANGED <<c_pc, c_env, c_file, c_q, c_seen, c_cur, c_links, c_failed, c_empty,
                   c_pages, c_break, c_limit, c_ret, c_blocks, c_urlFailed, c_cause>>
    /\ UNCHANGED <<c_fetched, c_dry>>
    /\ UNCHANGED notCrawl

\* The end of the "with ThreadPoolExecutor" block and of its as_completed loop:
\* every future has run and has been handed to the main thread.  Without the
\* wait the main thread would go on at any time.
PoolDrained_NoWait(fut) == TRUE

PoolDrained(fut) == \A i \in 1..Len(fut) : fut[i].st = "collected"

\* Lines 916-937: every future is collected; the records are de-duplicated,
\* written to the cache file and returned.
Persist ==
    /\ c_pc = "pool"
    /\ PoolDrained(c_fut)
    /\ LET unique == Dedup("scrape_primelocation", c_results) IN
       /\ c_file' = [exists |-> TRUE, mtime |-> c_env.now, text |-> JsonDump(unique)]
       /\ c_ret' = [recs |-> unique, cached |-> FALSE]
    /\ c_pc' = "done"
    /\ UNCHANGED <<c_env, c_q, c_seen, c_cur, c_links, c_failed, c_empty, c_pages,
                   c_break, c_limit, c_fut, c_results, c_blocks, c_urlFailed, c_cause>>
    /\ UNCHANGED <<c_fetched, c_dry>>
    /\ UNCHANGED notCrawl

CrawlIdle ==
    /\ c_pc = "idle"
    /\ c_env = [refresh |-> FALSE, workers |-> 0, ttl |-> 0, now |-> 0, tz |-> 0]
    /\ c_file = NoFile
    /\ c_q = <<>>
    /\ c_seen = {}
    /\ c_cur = 0
    /\ c_links = <<>>
    /\ c_failed = 0
    /\ c_empty = 0
    /\ c_pages = 0
    /\ c_break = FALSE
    /\ c_limit = 0
    /\ c_fut = <<>>
    /\ c_results = <<>>
    /\ c_ret = NoReturn
    /\ c_blocks = 0
    /\ c_urlFailed = FALSE
    /\ c_cause = "none"
    /\ c_fetched = <<>>
    /\ c_dry = 0

\* The run starts 13 hours after the cache file, if there is one, was written.
InitCrawl ==
    /\ c_pc = "start"
    /\ c_env \in [refresh : BOOLEAN, workers : 0..MaxWorkers, ttl : {12}, now : {13},
                  tz : TzOffsets]
    /\ c_file \in {NoFile, [exists |-> TRUE, mtime |-> 0, text |-> JsonDump(<<RecB>>)]}
    /\ c_q = <<>>
    /\ c_seen = {}
    /\ c_cur = 0
    /\ c_links = <<>>
    /\ c_failed = 0
    /\ c_empty = 0
    /\ c_pages = 0
    /\ c_break = FALSE
    /\ c_limit = 0
    /\ c_fut = <<>>
    /\ c_results = <<>>
    /\ c_ret = NoReturn
    /\ c_blocks = 0
    /\ c_urlFailed = FALSE
    /\ c_cause = "none"
    /\ c_fetched = [p \in ListingPages |-> 0]
    /\ c_dry = 0

NextCrawl ==
    \/ CacheCheck
    \/ ListingDequeue
    \/ \E links \in LinkLists, extra \in ExtraPageLists : ListingOk(links, extra)
    \/ \E kind \in FetchFailures, fb \in FallbackOutcomes : ListingFail(kind, fb)
    \/ DiscoveryStop
    \/ \E i \in 1..Len(c_links) : WorkerStart(i)
    \/ \E i \in 1..Len(c_links), out \in AllDetailOutcomes : WorkerFinish(i, out)
    \/ \E i \in 1..Len(c_links) : CollectResult(i)
    \/ Persist

\* ================================================================== Limiter

\* SimpleRateLimiter.wait (property_scraper_core), called through HttpClient.get by
\* the tasks of the search pool of scrape_properties.  The class holds no lock:
\* a thread may be pre-empted between any two statements of wait.

\* The search pool has max_workers=concurrency threads.
Waiters == 1..MaxWaiters

\* per_host_delay: 0.5 s, or 0.2 s when verbosity >= 2.
PerHostDelays == {5, 2}

\* random.uniform(0.05, 0.25)
LimiterJitter == {1, 2}

\* "now = time.time()"
WaitNow(w) ==
    /\ r_pc[w] = "call"
    /\ r_calls[w] < MaxWaits
    /\ r_now' = [r_now EXCEPT ![w] = r_clock]
    /\ r_pc' = [r_pc EXCEPT ![w] = "now"]
    /\ UNCHANGED <<r_delay, r_clock, r_last, r_wake, r_calls, r_lastPermit, r_gap>>
    /\ UNCHANGED notLimiter

\* "last = self._last.get(host, 0.0); delta = now - last;
\*  if delta < self.per_host_delay: time.sleep(self.per_host_delay - delta + jitter)"
WaitLast(w, jitter) ==
    /\ r_pc[w] = "now"
    /\ LET delta == r_now[w] - r_last IN
       IF delta < r_delay
       THEN /\ r_wake' = [r_wake EXCEPT ![w] = r_clock + (r_delay - delta + jitter)]
            /\ r_pc' = [r_pc EXCEPT ![w] = "sleep"]
       ELSE /\ jitter = 1
            /\ r_pc' = [r_pc EXCEPT ![w] = "store"]
            /\ UNCHANGED r_wake
    /\ UNCHANGED <<r_delay, r_clock, r_last, r_now, r_calls, r_lastPermit, r_gap>>
    /\ UNCHANGED notLimiter

\* time.sleep returns once the clock has reached the end of the sleep.
WaitWake(w) ==
    /\ r_pc[w] = "sleep"
    /\ r_clock >= r_wake[w]
    /\ r_pc' = [r_pc EXCEPT ![w] = "store"]
    /\ UNCHANGED <<r_delay, r_clock, r_last, r_now, r_wake, r_calls, r_lastPermit, r_gap>>
    /\ UNCHANGED notLimiter

\* "self._last[host] = time.time()", and wait returns: the request is permitted
\* and the locals of the call are gone.
WaitStore(w) ==
    /\ r_pc[w] = "store"
    /\ r_last' = r_clock
    /\ r_pc' = [r_pc EXCEPT ![w] = "call"]
    /\ r_calls' = [r_calls EXCEPT ![w] = @ + 1]
    /\ r_lastPermit' = r_clock
    /\ r_gap' = IF r_lastPermit = -1 THEN r_gap
                ELSE IF r_gap = -1 THEN r_clock - r_lastPermit
                ELSE Min(r_gap, r_clock - r_lastPermit)
    /\ r_now' = [r_now EXCEPT ![w] = 0]
    /\ r_wake' = [r_wake EXCEPT ![w] = 0]
    /\ UNCHANGED <<r_delay, r_clock>>
    /\ UNCHANGED notLimiter

\* Time passes.
LimiterTick ==
    /\ r_clock < MaxWaitClock
    /\ r_clock' = r_clock + 1
    /\ UNCHANGED <<r_delay, r_last, r_pc, r_now, r_wake, r_calls, r_lastPermit, r_gap>>
    /\ UNCHANGED notLimiter

LimiterIdle ==
    /\ r_delay = 0
    /\ r_clock = 0
    /\ r_last = 0
    /\ r_pc = <<>>
    /\ r_now = <<>>
    /\ r_wake = <<>>
    /\ r_calls = <<>>
    /\ r_lastPermit = -1
    /\ r_gap = -1

\* A fresh limiter (_last is empty) at a time of day later than per_host_delay
\* after the epoch.
InitLimiter ==
    /\ r_delay \in PerHostDelays
    /\ r_clock = 10
    /\ r_last = 0
    /\ r_pc = [w \in Waiters |-> "call"]
    /\ r_now = [w \in Waiters |-> 0]
    /\ r_wake = [w \in Waiters |-> 0]
    /\ r_calls = [w \in Waiters |-> 0]
    /\ r_lastPermit = -1
    /\ r_gap = -1

NextLimiter ==
    \/ \E w \in Waiters : WaitNow(w)
    \/ \E w \in Waiters, jitter \in LimiterJitter : WaitLast(w, jitter)
    \/ \E w \in Waiters : WaitWake(w)
    \/ \E w \in Waiters : WaitStore(w)
    \/ LimiterTick

\* ================================================================== Store

\* The cache file of one configuration, shared by two runs of scrape_primelocation:
\* one is at step 5 (open(cache_file, "w"), json.dump), the other at the cache
\* test (cache_fresh, open, json.load).  The text of the file is the list of the
\* JSON objects written so far; whole says that it is a complete JSON document.

NoDocument == [text |-> <<>>, whole |-> FALSE]

Document(file) == [text |-> file.text, whole |-> file.whole]

\* json.load(f): the list of dicts, defined for a complete document only
\* (JSONDecodeError otherwise).
JsonDecodes(doc) == doc.whole

\* The lists a run may have to persist.
StoreLists == {<<>>, <<RecA>>, <<RecA, RecB>>}

\* open(cache_file, "w"): the file is created or truncated to zero length.
PutOpen ==
    /\ s_wpc = "ready"
    /\ s_wpc' = "writing"
    /\ s_file' = [exists |-> TRUE, mtime |-> s_env.now, text |-> <<>>, whole |-> FALSE]
    /\ UNCHANGED <<s_env, s_old, s_wrecs, s_rpc, s_read>>
    /\ UNCHANGED notStore

\* json.dump writes the document piece by piece; the buffer of f is flushed to
\* the file whenever it fills: the first n objects are on disk.
PutFlush(n) ==
    /\ s_wpc = "writing"
    /\ n > Len(s_file.text)
    /\ n <= Len(s_wrecs)
    /\ s_file' = [s_file EXCEPT !.text = SubSeq(JsonDump(s_wrecs), 1, n)]
    /\ UNCHANGED <<s_env, s_old, s_wrecs, s_wpc, s_rpc, s_read>>
    /\ UNCHANGED notStore

\* The with block ends: the rest is flushed and the file is closed.
PutClose ==
    /\ s_wpc = "writing"
    /\ s_wpc' = "closed"
    /\ s_file' = [s_file EXCEPT !.text = JsonDump(s_wrecs), !.whole = TRUE]
    /\ UNCHANGED <<s_env, s_old, s_wrecs, s_rpc, s_read>>
    /\ UNCHANGED notStore

\* "if not os.getenv("REFRESH") and cache_fresh(cache_file)"
GetCheck ==
    /\ s_rpc = "check"
    /\ s_rpc' = IF UseCache(s_env.refresh, s_file, s_env.now, s_env.tz, s_env.ttl)
                THEN "load" ELSE "crawl"
    /\ UNCHANGED <<s_env, s_file, s_old, s_wrecs, s_wpc, s_read>>
    /\ UNCHANGED notStore

\* "with open(cache_file, "r") as f: cached = json.load(f)"; return cached.
\* No except clause surrounds it.
GetLoad ==
    /\ s_rpc = "load"
    /\ s_read' = Document(s_file)
    /\ s_rpc' = IF JsonDecodes(Document(s_file)) THEN "cached" ELSE "raised"
    /\ UNCHANGED <<s_env, s_file, s_old, s_wrecs, s_wpc>>
    /\ UNCHANGED notStore

StoreIdle ==
    /\ s_env = [refresh |-> FALSE, now |-> 0, tz |-> 0, ttl |-> 0]
    /\ s_file = [exists |-> FALSE, mtime |-> 0, text |-> <<>>, whole |-> FALSE]
    /\ s_old = s_file
    /\ s_wrecs = <<>>
    /\ s_wpc = "idle"
    /\ s_rpc = "idle"
    /\ s_read = NoDocument

\* The file is absent, or was written 1 or 13 hours ago by a run that finished,
\* or was left incomplete 1 hour ago by a run that was killed while writing.
InitStore ==
    /\ s_env \in [refresh : BOOLEAN, now : {13}, tz : TzOffsets, ttl : {12}]
    /\ s_file \in
         {[exists |-> FALSE, mtime |-> 0, text |-> <<>>, whole |-> FALSE]}
         \cup {[exists |-> TRUE, mtime |-> t, text |-> JsonDump(<<RecB>>), whole |-> TRUE] :
                  t \in {0, 12}}
         \cup {[exists |-> TRUE, mtime |-> 12, text |-> JsonDump(<<RecB>>), whole |-> FALSE]}
    /\ s_old = s_file
    /\ s_wrecs \in StoreLists
    /\ s_wpc = "ready"
    /\ s_rpc = "check"
    /\ s_read = NoDocument

NextStore ==
    \/ PutOpen
    \/ \E n \in 1..2 : PutFlush(n)
    \/ PutClose
    \/ GetCheck
    \/ GetLoad

\* ================================================================== Filter

\* One pass of the body of the as_completed loop of scrape_primelocation, for
\* every record parse_details can return and every filter configuration.

\* parse_details: price is an int (0 when no price was found), bedrooms and
\* bathrooms are an int or None; is_article4_area(address, postcode) is a
\* predicate of the record.
FilterRecords ==
    {Listing(U1, price, beds, baths, a4) :
        price \in {0, 250, 400, 500}, beds \in {-1, 2, 3, 4}, baths \in {-1, 1, 2},
        a4 \in BOOLEAN}

\* max_price_int = as_int(max_price, None); min_beds = as_int(min_bedrooms, 1) or 1;
\* baths_min is in filters only when the keywords give it as an int.
FilterConfigs ==
    [max_price : {-1, 0, 400}, min_beds : {1, 3}, baths_min : {-1, 2}]

\* Lines 883-910: the record is skipped or appended to results.
ApplyFilters ==
    /\ x_pc = "rec"
    /\ IF PassesFilters(x_rec, x_cfg)
       THEN /\ x_pc' = "kept"
            /\ x_results' = Append(x_results, x_rec)
       ELSE /\ x_pc' = "skipped"
            /\ UNCHANGED x_results
    /\ UNCHANGED <<x_rec, x_cfg>>
    /\ UNCHANGED notFilter

FilterIdle ==
    /\ x_rec = NoRecord
    /\ x_cfg = [max_price |-> -1, min_beds |-> 1, baths_min |-> -1]
    /\ x_pc = "idle"
    /\ x_results = <<>>

InitFilter ==
    /\ x_rec \in FilterRecords
    /\ x_cfg \in FilterConfigs
    /\ x_pc = "rec"
    /\ x_results = <<>>

NextFilter == ApplyFilters

\* ================================================================== Assemble

\* Lines 1052-1057 of scrape_properties: unique.sort(key=...), then the cut to
\* listing_limit.  A PropertyListing is written by the fields the step reads
\* (price and bedrooms; None is -1) and its title.

AssembleRecords == [title : {"a", "b"}, price : {-1, 250, 300}, bedrooms : {-1, 4}]

\* "lambda x: (x.price or 0, x.bedrooms or 0)"
SortKey_PriceOnly(l) == <<(IF l.price = -1 THEN 0 ELSE l.price), 0>>

SortKey(l) ==
    <<(IF l.price = -1 THEN 0 ELSE l.price), (IF l.bedrooms = -1 THEN 0 ELSE l.bedrooms)>>

\* Python's order on tuples of two ints.
TupleLess(a, b) == a[1] < b[1] \/ (a[1] = b[1] /\ a[2] < b[2])

\* list.sort is stable: a position goes behind every position already placed
\* whose key is not greater than its own.
RECURSIVE InsertStable(_, _, _)
InsertStable(sorted, p, list) ==
    IF sorted = <<>> THEN <<p>>
    ELSE IF TupleLess(SortKey(list[p]), SortKey(list[Head(sorted)]))
    THEN <<p>> \o sorted
    ELSE <<Head(sorted)>> \o InsertStable(Tail(sorted), p, list)

RECURSIVE SortFrom(_, _, _)
SortFrom(sorted, p, list) ==
    IF p > Len(list) THEN sorted
    ELSE SortFrom(InsertStable(sorted, p, list), p + 1, list)

\* The positions of list in the order unique.sort(key=...) leaves them.
SortedPositions(list) == SortFrom(<<>>, 1, list)

\* "if listing_limit: unique = unique[:listing_limit]": a Python slice, whose
\* negative end counts from the end of the list.
SliceEnd(n, len) == IF n >= 0 THEN Min(n, len) ELSE Max(len + n, 0)

Trim(seq, limit) == IF limit = 0 THEN seq ELSE SubSeq(seq, 1, SliceEnd(limit, Len(seq)))

\* The step runs; the list is returned.
Assemble ==
    /\ a_pc = "ready"
    /\ a_pc' = "returned"
    /\ a_out' = Trim(SortedPositions(a_in), a_limit)
    /\ UNCHANGED <<a_in, a_limit>>
    /\ UNCHANGED notAssemble

AssembleIdle ==
    /\ a_in = <<>>
    /\ a_limit = 0
    /\ a_pc = "idle"
    /\ a_out = <<>>

InitAssemble ==
    /\ a_in \in ListsUpTo(AssembleRecords, MaxAssemble)
    /\ a_limit \in (0 - 1)..(MaxAssemble + 1)
    /\ a_pc = "ready"
    /\ a_out = <<>>

NextAssemble == Assemble

\* ================================================================== Area

\* The three area extractors: extract_area_sqm (property_scraper_core),
\* extract_square_footage (scraper_working.py) and extract_area_from_text
\* (zoopla_scraper.py), applied to a text such as "968 sq ft" or "90 sq m".
\* Areas are written in hundredths of a square metre, so that the two decimals
\* extract_area_from_text keeps are whole numbers.

AreaExtractors == {"extract_area_sqm", "extract_square_footage", "extract_area_from_text"}

AreaUnits == {"sq ft", "sq m"}

\* n * 0.092903, in millionths of a square metre.
SqftToMicroSqm(n) == n * 92903

\* The integer nearest to num / den. The products met here are never half-way
\* between two results, so Python's rounding of ties does not come into play.
RoundDiv(num, den) == (2 * num + den) \div (2 * den)

\* "sqm = int(round(sqft * 0.092903))"
CoreConvert(sqft) == 100 * RoundDiv(SqftToMicroSqm(sqft), 1000000)

\* "area = int(area * 0.092903)": int() drops the fraction.
WorkingConvert(sqft) == 100 * (SqftToMicroSqm(sqft) \div 1000000)

\* "area_sqm = round(sqft_val * 0.092903, 2)"
ZooplaConvert(sqft) == RoundDiv(SqftToMicroSqm(sqft), 10000)

\* The figures the text of a page may give in square metres next to its figure
\* in square feet.
BothSqm == {87, 90}

\* Whether the text has a figure in the unit, and the figure (unit "both": n is
\* the figure in square feet, m the one in square metres).
HasUnit(text, u) == text.unit = u \/ text.unit = "both"
Figure(text, u) == IF u = "sq m" /\ text.unit = "both" THEN text.m ELSE text.n

\* The order in which the extractor tries its patterns: extract_area_sqm goes
\* through _SQM_PAT and then _SQFT_PAT, extract_area_from_text looks "for sq m
\* first", the list of extract_square_footage begins with the sq ft pattern.
PatternOrder(fn) ==
    IF fn = "extract_square_footage" THEN <<"sq ft", "sq m">> ELSE <<"sq m", "sq ft">>

\* The unit of the first pattern that matches the text.
MatchedUnit(fn, text) ==
    IF HasUnit(text, PatternOrder(fn)[1]) THEN PatternOrder(fn)[1] ELSE PatternOrder(fn)[2]

\* What the extractor returns for the text.
ExtractedArea(fn, text) ==
    LET u == MatchedUnit(fn, text)
        n == Figure(text, u)
    IN  IF u = "sq m" THEN 100 * n
        ELSE IF fn = "extract_area_sqm" THEN CoreConvert(n)
        ELSE IF fn = "extract_square_footage" THEN WorkingConvert(n)
        ELSE ZooplaConvert(n)

\* The extractor runs on the text.
ExtractArea ==
    /\ g_pc = "call"
    /\ g_pc' = "returned"
    /\ g_area' = ExtractedArea(g_fn, g_text)
    /\ UNCHANGED <<g_fn, g_text>>
    /\ UNCHANGED notArea

AreaIdle ==
    /\ g_fn = "none"
    /\ g_text = [n |-> 0, unit |-> "none", m |-> 0]
    /\ g_pc = "idle"
    /\ g_area = -1

InitArea ==
    /\ g_fn \in AreaExtractors
    /\ g_text \in [n : MinSqft..MaxSqft, unit : AreaUnits, m : {0}]
                \cup [n : MinSqft..MaxSqft, unit : {"both"}, m : BothSqm]
    /\ g_pc = "call"
    /\ g_area = -1

NextArea == ExtractArea

\* ================================================================== Price

\* extract_price of property_scraper_core, of scraper.py and of
\* scraper_working.py, applied to a text.  A text is a sequence of tokens
\* separated by spaces; a token is a word without digits or a number, written
\* as its characters (digits and commas), with or without a leading pound sign.
\* An int is written as the string of its digits.

PriceExtractors == {"core", "scraper", "scraper_working"}

Word == [sym |-> FALSE, chars |-> <<>>]
Pounds350k == [sym |-> TRUE, chars |-> <<"3", "5", "0", ",", "0", "0", "0">>]
Grouped600k == [sym |-> FALSE, chars |-> <<"6", "0", "0", ",", "0", "0", "0">>]
Plain1200 == [sym |-> FALSE, chars |-> <<"1", "2", "0", "0">>]
Plain3 == [sym |-> FALSE, chars |-> <<"3">>]

PriceTokens == {Word, Pounds350k, Grouped600k, Plain1200, Plain3}

\* val.replace(",", "") / re.sub(r"[^\d]", "", ...): the digits of a string.
RECURSIVE Digits(_)
Digits(chars) ==
    IF chars = <<>> THEN <<>>
    ELSE IF Head(chars) = "," THEN Digits(Tail(chars))
    ELSE <<Head(chars)>> \o Digits(Tail(chars))

HasComma(chars) == \E i \in 1..Len(chars) : chars[i] = ","

\* re.search: the first token of the text that the pattern matches (0: none).
FirstToken(text, Matches(_)) ==
    IF \E i \in 1..Len(text) : Matches(text[i])
    THEN CHOOSE i \in 1..Len(text) : Matches(text[i]) /\ \A j \in 1..(i - 1) : ~Matches(text[j])
    ELSE 0

\* r"£\s*([\d,]+)" and r"[£]\s?([\d,]+)"
IsPoundToken(tok) == tok.sym /\ tok.chars # <<>>

\* r"\b([\d,]{3,})\b"
IsLongNumber(tok) == ~tok.sym /\ Len(tok.chars) >= 3

\* r"\b(\d{1,3}(?:,\d{3})+)\b"
IsGroupedNumber(tok) == ~tok.sym /\ HasComma(tok.chars)

\* r"\b(\d{4,})\b"
IsFourDigits(tok) == ~tok.sym /\ ~HasComma(tok.chars) /\ Len(tok.chars) >= 4

Zero == <<"0">>

\* property_scraper_core: the pound pattern, then any run of three or more
\* digits and commas.
CoreExtractPrice(text) ==
    LET m == FirstToken(text, IsPoundToken)
        m2 == FirstToken(text, IsLongNumber)
    IN  IF m # 0 THEN Digits(text[m].chars)
        ELSE IF m2 # 0 THEN Digits(text[m2].chars)
        ELSE Zero

\* scraper.py: the pound pattern, then a comma-grouped number, then four or more
\* digits in a row.
ScraperExtractPrice(text) ==
    LET m == FirstToken(text, IsPoundToken)
        m2 == FirstToken(text, IsGroupedNumber)
        m3 == FirstToken(text, IsFourDigits)
    IN  IF m # 0 THEN Digits(text[m].chars)
        ELSE IF m2 # 0 THEN Digits(text[m2].chars)
        ELSE IF m3 # 0 THEN Digits(text[m3].chars)
        ELSE Zero

\* scraper_working.py: every character that is not a digit is removed from the
\* whole text and what remains is read as one number.
RECURSIVE AllDigits(_)
AllDigits(text) ==
    IF text = <<>> THEN <<>> ELSE Digits(Head(text).chars) \o AllDigits(Tail(text))

WorkingExtractPrice(text) == IF AllDigits(text) = <<>> THEN Zero ELSE AllDigits(text)

ExtractedPrice(fn, text) ==
    IF fn = "core" THEN CoreExtractPrice(text)
    ELSE IF fn = "scraper" THEN ScraperExtractPrice(text)
    ELSE WorkingExtractPrice(text)

\* The function runs on the text.
ExtractPrice ==
    /\ p_pc = "call"
    /\ p_pc' = "returned"
    /\ p_price' = ExtractedPrice(p_fn, p_text)
    /\ UNCHANGED <<p_fn, p_text>>
    /\ UNCHANGED notPrice

PriceIdle ==
    /\ p_fn = "none"
    /\ p_text = <<>>
    /\ p_pc = "idle"
    /\ p_price = <<>>

InitPrice ==
    /\ p_fn \in PriceExtractors
    /\ p_text \in ListsUpTo(PriceTokens, MaxTokens)
    /\ p_pc = "call"
    /\ p_price = <<>>

NextPrice == ExtractPrice

\* ================================================================== Key

\* cache_path_for.  A dict is the sequence of its items in insertion order, an
\* item is a key and a JSON value, a JSON value is its text and whether the
\* text is quoted (a str) or not (an int, null).

CitySlugs == {"leeds", "hull"}
MinBeds == {1, 3}
MaxPrices == {0 - 1, 400}

JsonInt(n) == [quoted |-> FALSE, text |-> ToString(n)]
JsonNull == [quoted |-> FALSE, text |-> "null"]
JsonStr(s) == [quoted |-> TRUE, text |-> s]

\* The filters parse_keywords_blob can return: any key the caller wrote, with a
\* str value, and baths_min as an int.
FilterItems ==
    { [key |-> "baths_min", value |-> JsonInt(2)],
      [key |-> "baths_min", value |-> JsonInt(3)],
      [key |-> "postcode", value |-> JsonStr("LS6")],
      [key |-> "max_price", value |-> JsonStr("300")] }

HasKey(d, k) == \E i \in 1..Len(d) : d[i].key = k

FilterDicts ==
    { d \in ListsUpTo(FilterItems, MaxFilters) :
        \A i, j \in 1..Len(d) : i # j => d[i].key # d[j].key }

\* d[k] = v of a dict: the value is replaced in place, a new key goes last.
DictSet(d, item) ==
    IF HasKey(d, item.key)
    THEN [i \in 1..Len(d) |-> IF d[i].key = item.key THEN item ELSE d[i]]
    ELSE Append(d, item)

\* {**a, **b}
RECURSIVE DictMerge(_, _)
DictMerge(a, b) == IF b = <<>> THEN a ELSE DictMerge(DictSet(a, Head(b)), Tail(b))

\* The keys in the order of Python's str comparison.
KeyOrder == <<"baths_min", "max_price", "min_beds", "postcode">>

\* The items as json.dumps writes them without sort_keys: in insertion order.
SortKeys_InsertionOrder(d) == d

\* sort_keys=True: the items in the order of their keys.
RECURSIVE SortFromKey(_, _)
SortFromKey(d, n) ==
    IF n > Len(KeyOrder) THEN <<>>
    ELSE SelectSeq(d, LAMBDA item : item.key = KeyOrder[n]) \o SortFromKey(d, n + 1)

SortKeys(d) == SortFromKey(d, 1)

PyIntOrNone(n) == IF n = 0 - 1 THEN JsonNull ELSE JsonInt(n)

\* json.dumps({"min_beds": min_beds, "max_price": max_price, **filters}, sort_keys=True)
CacheKey(min_beds, max_price, filters) ==
    SortKeys(DictMerge(<<[key |-> "min_beds", value |-> JsonInt(min_beds)],
                         [key |-> "max_price", value |-> PyIntOrNone(max_price)]>>,
                       filters))

\* hashlib.sha1(key).hexdigest()[:16]: a function of the key; here the key itself.
Stamp(key) == key

CachePathFor(city_slug, min_beds, max_price, filters) ==
    [dir |-> city_slug, stamp |-> Stamp(CacheKey(min_beds, max_price, filters))]

CachePathCall ==
    /\ h_pc = "call"
    /\ h_dirs' = h_dirs \cup {h_city}
    /\ h_path' = CachePathFor(h_city, h_beds, h_price, h_filters)
    /\ h_pc' = "returned"
    /\ UNCHANGED <<h_city, h_beds, h_price, h_filters>>
    /\ UNCHANGED notKey

NoPath == [dir |-> "", stamp |-> <<>>]

KeyIdle ==
    /\ h_city = ""
    /\ h_beds = 0
    /\ h_price = 0
    /\ h_filters = <<>>
    /\ h_dirs = {}
    /\ h_pc = "idle"
    /\ h_path = NoPath

InitKey ==
    /\ h_city \in CitySlugs
    /\ h_beds \in MinBeds
    /\ h_price \in MaxPrices
    /\ h_filters \in FilterDicts
    /\ h_dirs \in {{}, {h_city}}
    /\ h_pc = "call"
    /\ h_path = NoPath

NextKey == CachePathCall

\* ================================================================== Details

\* parse_details (scraper.py): how the price, the bedrooms and the bathrooms of a
\* record are taken from the JSON-LD object of the page and from its text.  The
\* other fields of the record are left out.  A token of the text is a number (as
\* in Price) or one of the words "bed" and "bath"; a count that is None is -1.

BedWord == [sym |-> FALSE, chars |-> <<>>, word |-> "bed"]
BathWord == [sym |-> FALSE, chars |-> <<>>, word |-> "bath"]
Number(tok) == [sym |-> tok.sym, chars |-> tok.chars, word |-> ""]

DetailTokens == {Number(Pounds350k), Number(Grouped600k), Number(Plain3), BedWord, BathWord}

\* offers.get("price") or offers.get("lowPrice") or offers.get("highPrice"): no
\* offer or no truthy value, a number, a text without digits.
LdNoPrice == <<>>
LdPrice250k == <<"2", "5", "0", "0", "0", "0">>
LdPricePOA == <<"P", "O", "A">>

\* What the loop over the keys (numberOfBedrooms, ...) ends with: no value that
\* int() accepts (-1), or the int.
LdCounts == {0 - 1, 0, 4}

LdObjects == [price : {LdNoPrice, LdPrice250k, LdPricePOA}, bedrooms : LdCounts,
              bathrooms : {0 - 1, 2}]

DigitChars == {"0", "1", "2", "3", "4", "5", "6", "7", "8", "9"}

\* re.sub(r"[^\d]", "", str(p))
DigitsOnly(chars) == SelectSeq(chars, LAMBDA c : c \in DigitChars)

\* The price of the JSON-LD offer: int of its digits; None (<<>>) without an
\* offer price and when int() raises on the empty string.
LdPrice(ld) == IF ld.price = LdNoPrice THEN <<>> ELSE DigitsOnly(ld.price)

\* The text as extract_price reads it.
PriceText(text) == [i \in 1..Len(text) |-> [sym |-> text[i].sym, chars |-> text[i].chars]]

\* "if price is None: price = extract_price(text)", and the other way round.
ResolvePrice_TextFirst(ldPrice, text) ==
    IF ScraperExtractPrice(PriceText(text)) # Zero \/ ldPrice = <<>>
    THEN ScraperExtractPrice(PriceText(text))
    ELSE ldPrice

ResolvePrice(ldPrice, text) ==
    IF ldPrice = <<>> THEN ScraperExtractPrice(PriceText(text)) ELSE ldPrice

\* int() of a string of digits.
DigitValue(c) == CHOOSE n \in 0..9 : ToString(n) = c

RECURSIVE PyInt(_)
PyInt(digits) ==
    IF digits = <<>> THEN 0
    ELSE 10 * PyInt(SubSeq(digits, 1, Len(digits) - 1)) + DigitValue(digits[Len(digits)])

\* The digits that end a number: what (\d+) matches in front of the word.
RECURSIVE LastDigits(_)
LastDigits(chars) ==
    IF chars = <<>> \/ chars[Len(chars)] = "," THEN <<>>
    ELSE Append(LastDigits(SubSeq(chars, 1, Len(chars) - 1)), chars[Len(chars)])

\* extract_first_int(BED_RE / BATH_RE, text) or None: the number in front of the
\* first "<n> bed" / "<n> bath" of the text; None without one and when it is 0.
TextCount(word, text) ==
    LET At(i) == text[i].chars # <<>> /\ text[i + 1].word = word
        hits == {i \in 1..(Len(text) - 1) : At(i)}
    IN  IF hits = {} THEN 0 - 1
        ELSE LET i == CHOOSE k \in hits : \A m \in hits : k <= m
                 n == PyInt(LastDigits(text[i].chars))
             IN  IF n = 0 THEN 0 - 1 ELSE n

\* "if bedrooms is None: bedrooms = extract_first_int(BED_RE, text) or None", and
\* the other way round.
ResolveCount_TextFirst(ldCount, word, text) ==
    IF TextCount(word, text) # 0 - 1 THEN TextCount(word, text) ELSE ldCount

ResolveCount(ldCount, word, text) ==
    IF ldCount = 0 - 1 THEN TextCount(word, text) ELSE ldCount

ParseDetails ==
    /\ t_pc = "call"
    /\ t_pc' = "returned"
    /\ t_rec' = [price |-> ResolvePrice(LdPrice(t_ld), t_text),
                 bedrooms |-> ResolveCount(t_ld.bedrooms, "bed", t_text),
                 bathrooms |-> ResolveCount(t_ld.bathrooms, "bath", t_text)]
    /\ UNCHANGED <<t_ld, t_text>>
    /\ UNCHANGED notDetails

NoDetails == [price |-> <<>>, bedrooms |-> 0 - 1, bathrooms |-> 0 - 1]

DetailsIdle ==
    /\ t_ld = [price |-> LdNoPrice, bedrooms |-> 0 - 1, bathrooms |-> 0 - 1]
    /\ t_text = <<>>
    /\ t_pc = "idle"
    /\ t_rec = NoDetails

InitDetails ==
    /\ t_ld \in LdObjects
    /\ t_text \in ListsUpTo(DetailTokens, MaxDetailTokens)
    /\ t_pc = "call"
    /\ t_rec = NoDetails

NextDetails == ParseDetails

\* ================================================================== Links

\* collect_detail_links (scraper.py).  A URL is a path and a query string; path 0
\* stands for a URL without "/for-sale/details/" in it.

\* The href of an anchor and the url of a JSON-LD block.
PageUrls == {Url(0, ""), Url(1, ""), Url(1, "utm"), Url(2, "")}

\* The paths the pattern /for-sale/details/... finds in the text of the page.
TextPaths == {1, 2}

IsDetailUrl(u) == u.path # 0

\* str(href_attr).split("?")[0], made absolute by urljoin.
AnchorLink(href) == Url(href.path, "")

\* urljoin("https://www.primelocation.com", m.group(1))
TextLink(p) == Url(p, "")

\* "if full not in seen", and a test that lets every link through.
NotSeen_Always(u, links) == TRUE

NotSeen(u, links) == \A i \in 1..Len(links) : links[i] # u

\* One pass of a loop of the function: the candidates, in order, each appended
\* when it is a detail URL that was not seen yet.
RECURSIVE AddLinks(_, _)
AddLinks(links, cands) ==
    IF cands = <<>> THEN links
    ELSE AddLinks(IF IsDetailUrl(Head(cands)) /\ NotSeen(Head(cands), links)
                  THEN Append(links, Head(cands)) ELSE links,
                  Tail(cands))

MapSeq(seq, F(_)) == [i \in 1..Len(seq) |-> F(seq[i])]

\* The anchors, then the JSON-LD blocks, then the scan of the text.
CollectedLinks(page) ==
    AddLinks(AddLinks(AddLinks(<<>>, MapSeq(page.anchors, AnchorLink)), page.ld),
             MapSeq(page.text, TextLink))

CollectDetailLinks ==
    /\ l_pc = "call"
    /\ l_pc' = "returned"
    /\ l_links' = CollectedLinks(l_page)
    /\ UNCHANGED l_page
    /\ UNCHANGED notLinks

LinksIdle ==
    /\ l_page = [anchors |-> <<>>, ld |-> <<>>, text |-> <<>>]
    /\ l_pc = "idle"
    /\ l_links = <<>>

InitLinks ==
    /\ l_page \in [anchors : ListsUpTo(PageUrls, MaxPageItems),
                   ld : ListsUpTo(PageUrls, MaxPageItems),
                   text : ListsUpTo(TextPaths, MaxPageItems)]
    /\ l_pc = "call"
    /\ l_links = <<>>

NextLinks == CollectDetailLinks

\* ================================================================== Enrich

\* scrape_properties (property_scraper_core) after the list pages are parsed:
\* deduplicate, the detail tasks (scrape_detail_page and parse_detail) on the
\* first detail_enrich listings, the sort and the cut.  A str that is None or
\* empty is "" (a title: <<>>), a price that is missing is 0, a count that is
\* None is -1.

EnrichListing(title, price, beds, agent) ==
    [title |-> title, price |-> price, bedrooms |-> beds, listing_id |-> 7,
     agent_name |-> agent]

\* One property met with two titles, and a listing with fields missing.
EnrichListings ==
    {EnrichListing(<<"a">>, 250, 4, "ann"), EnrichListing(<<"b">>, 250, 4, "ann"),
     EnrichListing(<<"a">>, 0, 0 - 1, "")}

NoLd == [present |-> FALSE, price |-> 0, bedrooms |-> 0 - 1, seller |-> FALSE]

\* The detail page: whether the fetch gave a 200 with content, the text of its
\* heading, the text of its agent element, and its JSON-LD (the offer price, the
\* bedrooms, whether it has a seller dict; the seller has no name).
DetailPages ==
    {[ok |-> FALSE, h1 |-> <<>>, agent |-> "", ld |-> NoLd],
     [ok |-> TRUE, h1 |-> <<"b">>, agent |-> "bob", ld |-> NoLd],
     [ok |-> TRUE, h1 |-> <<>>, agent |-> "",
      ld |-> [present |-> TRUE, price |-> 300, bedrooms |-> 3, seller |-> TRUE]],
     [ok |-> TRUE, h1 |-> <<"£">>, agent |-> "",
      ld |-> [present |-> TRUE, price |-> 250, bedrooms |-> 3, seller |-> FALSE]]}

\* "if title_node: ... if tx and not tx.lower().startswith("£"): listing.title = tx"
RefinedTitle(title, h1) == IF h1 # <<>> /\ Head(h1) # "£" THEN h1 ELSE title

\* scrape_detail_page up to the call of parse_detail.
DetailPagePart(l, page) ==
    [l EXCEPT !.agent_name = IF page.agent # "" THEN page.agent ELSE @,
              !.title = RefinedTitle(@, page.h1)]

\* BaseParser.parse_detail: the JSON-LD block and the final assignments.
ParseDetailPart(l, ld) ==
    IF ~ld.present THEN l
    ELSE [l EXCEPT !.price = IF @ <= 0 /\ ld.price # 0 THEN ld.price ELSE @,
                   !.bedrooms = IF @ = 0 - 1 \/ @ = 0 THEN ld.bedrooms ELSE @,
                   !.agent_name = IF ld.seller THEN "" ELSE @]

ScrapeDetailPage(l, page) ==
    IF ~page.ok THEN l ELSE ParseDetailPart(DetailPagePart(l, page), page.ld)

\* detail_targets = unique[:max(0, detail_enrich)]
DetailTargets(list, n) == 1..Min(Max(0, n), Len(list))

\* "unique = deduplicate(all_listings)"; an empty all_listings is returned at once.
DedupEarly ==
    /\ e_pc = "parsed"
    /\ IF e_in = <<>>
       THEN /\ e_pc' = "returned"
            /\ UNCHANGED <<e_orig, e_list>>
       ELSE /\ e_pc' = "enrich"
            /\ e_orig' = Dedup("deduplicate", e_in)
            /\ e_list' = Dedup("deduplicate", e_in)
    /\ UNCHANGED <<e_in, e_n, e_limit, e_done, e_out>>
    /\ UNCHANGED notEnrich

\* detail_task on one of the targets, in a thread of the pool.
EnrichOne(i, page) ==
    /\ e_pc = "enrich"
    /\ i \in DetailTargets(e_list, e_n) \ e_done
    /\ e_list' = [e_list EXCEPT ![i] = ScrapeDetailPage(@, page)]
    /\ e_done' = e_done \cup {i}
    /\ UNCHANGED <<e_in, e_n, e_limit, e_pc, e_orig, e_out>>
    /\ UNCHANGED notEnrich

\* The pool is done: the list is sorted, cut and returned.
EnrichReturn ==
    /\ e_pc = "enrich"
    /\ e_done = DetailTargets(e_list, e_n)
    /\ e_pc' = "returned"
    /\ e_out' = LET pos == Trim(SortedPositions(e_list), e_limit)
                IN  [k \in 1..Len(pos) |-> e_list[pos[k]]]
    /\ UNCHANGED <<e_in, e_n, e_limit, e_orig, e_list, e_done>>
    /\ UNCHANGED notEnrich

EnrichIdle ==
    /\ e_in = <<>>
    /\ e_n = 0
    /\ e_limit = 0
    /\ e_pc = "idle"
    /\ e_orig = <<>>
    /\ e_list = <<>>
    /\ e_done = {}
    /\ e_out = <<>>

InitEnrich ==
    /\ e_in \in ListsUpTo(EnrichListings, MaxEnrich)
    /\ e_n \in 0..MaxEnrich
    /\ e_limit \in {0, MaxEnrich}
    /\ e_pc = "parsed"
    /\ e_orig = <<>>
    /\ e_list = <<>>
    /\ e_done = {}
    /\ e_out = <<>>

NextEnrich ==
    \/ DedupEarly
    \/ \E i \in 1..Len(e_list), page \in DetailPages : EnrichOne(i, page)
    \/ EnrichReturn

\* ================================================================== Migrate

\* migrate_cache_files.py: migrate_cache_file adds the new fields to the
\* properties of one cache file and keeps a .backup file.  A property is a dict;
\* a key the dict does not have is "absent" (0 - 2 for area_sqm), None is 0 - 1,
\* a bool is "True" or "False", an area is in hundredths of a square metre.

Addresses == {"1 Hyde Rd, Leeds", "2 Mill St, Camden, London", "3 High St, Barnet, London"}
PropertyTitles == {"flat", "house"}
NoAreaText == ""
SqftText == "1000 sq ft"

\* A property as an older crawl cached it.
RawProperties ==
    [ address : Addresses,
      title : PropertyTitles,
      description : {NoAreaText, SqftText},
      area_sqm : {0 - 2, 0 - 1, 9500},
      area_estimated : {"absent"},
      london_borough : {"absent"},
      article4_status : {"absent"},
      property_type : {"absent"},
      hmo_candidate : {"absent"},
      migrated_at : {"absent"} ]

\* parse_london_location: the borough whose name the address holds.
ParseLondonLocation(address) ==
    CASE address = "2 Mill St, Camden, London" -> "Camden"
      [] address = "3 High St, Barnet, London" -> "Barnet"
      [] OTHER -> "None"

InLondon(address) == address \in {"2 Mill St, Camden, London", "3 High St, Barnet, London"}

\* The boroughs of ARTICLE4_BOROUGHS and the cities of ARTICLE4_CITIES among
\* the addresses.
IsArticle4Area(address, london_borough) ==
    IF london_borough # "None"
    THEN IF london_borough = "Barnet" THEN "Full" ELSE "None"
    ELSE IF address = "1 Hyde Rd, Leeds" THEN "Full" ELSE "None"

\* extract_area_from_text: no "sq m" in the texts; "1000 sq ft" is converted,
\* round(1000 * 0.092903, 2), and marked as estimated.
ExtractAreaFromText(text) ==
    IF text = SqftText
    THEN [area_sqm |-> (1000 * 92903 + 5000) \div 10000, estimated |-> "True"]
    ELSE [area_sqm |-> 0 - 1, estimated |-> "False"]

\* extract_property_details: the property type named in the title.
ExtractPropertyDetails(title) == title

\* migrate_property: the dict after the call; the dict itself is changed.
MigrateProperty(prop) ==
    IF prop.hmo_candidate # "absent" THEN prop
    ELSE
        LET found == ExtractAreaFromText(prop.description)
            missing == prop.area_sqm \in {0 - 2, 0 - 1}
            area == IF missing THEN found.area_sqm ELSE prop.area_sqm
            estimated == IF missing THEN found.estimated ELSE "False"
            borough == IF InLondon(prop.address)
                       THEN ParseLondonLocation(prop.address) ELSE "None"
            status == IsArticle4Area(prop.address, borough)
        IN  [prop EXCEPT
                !.area_sqm = area,
                !.area_estimated = estimated,
                !.london_borough = borough,
                !.article4_status = status,
                !.property_type = ExtractPropertyDetails(prop.title),
                !.hmo_candidate = IF area # 0 - 1 /\ area >= 9000 /\ status = "None"
                                  THEN "True" ELSE "False",
                !.migrated_at = "now"]

\* The properties a cache file can hold: cached by an older crawl, or migrated
\* by an earlier run.
StoredProperties == RawProperties \cup {MigrateProperty(prop) : prop \in RawProperties}

NoJsonFile == [kind |-> "absent", data |-> <<>>]
InvalidFile == [kind |-> "invalid", data |-> <<>>]
ObjectFile == [kind |-> "object", data |-> <<>>]
ListFile(data) == [kind |-> "list", data |-> data]

\* The list after the loop over data: the dicts of the list are the ones
\* migrate_property changed.
MigratedData(data) == [i \in 1..Len(data) |-> MigrateProperty(data[i])]

MigratedCount(data) == Cardinality({i \in 1..Len(data) : data[i].hmo_candidate = "absent"})

\* migrate_cache_file(file_path)
MigrateCacheFile ==
    /\ m_pc = "call"
    /\ m_pc' = "returned"
    /\ IF m_file.kind # "list"
       THEN /\ m_ret' = FALSE
            /\ UNCHANGED <<m_file, m_backup>>
       ELSE LET data == MigratedData(m_file.data)
            IN  IF MigratedCount(m_file.data) > 0
                THEN /\ m_backup' = ListFile(data)
                     /\ m_file' = ListFile(data)
                     /\ m_ret' = TRUE
                ELSE /\ m_ret' = FALSE
                     /\ UNCHANGED <<m_file, m_backup>>
    /\ UNCHANGED m_before
    /\ UNCHANGED notMigrate

MigrateIdle ==
    /\ m_file = NoJsonFile
    /\ m_backup = NoJsonFile
    /\ m_before = NoJsonFile
    /\ m_pc = "idle"
    /\ m_ret = FALSE

InitMigrate ==
    /\ m_file \in {InvalidFile, ObjectFile}
                    \cup {ListFile(data) : data \in ListsUpTo(StoredProperties, MaxProps)}
    /\ m_backup = NoJsonFile
    /\ m_before = m_file
    /\ m_pc = "call"
    /\ m_ret = FALSE

NextMigrate == MigrateCacheFile

\* ================================================================== Working

\* scraper_working.py: scrape_property_details walks the search URLs, takes the
\* property cards of each page and accumulates the properties that pass the
\* criteria, one per address.

\* The heading of a card: get_text(strip=True) of the title element, or its
\* title attribute as written; <<>> when the card has none.
CardTitles == {<<>>, <<"a">>, <<"A", " ">>, <<"b">>, <<"B">>}

\* f"Property in {city}"
CityTitle == <<"p">>

\* What scrape_property_details looks at in a card: its heading, the price and
\* the bedrooms extract_property_from_card reads.
PropertyCards ==
    [title : CardTitles, price : {250}, bedrooms : {4}]
        \cup [title : {<<"a">>}, price : {0, 600}, bedrooms : {4}]
        \cup [title : {<<"a">>}, price : {250}, bedrooms : {3}]

\* The page of a URL: its property cards, or a response that is not a 200.
WorkingPages ==
    [status_code : {200}, cards : ListsUpTo(PropertyCards, MaxCards)]
        \cup {[status_code |-> 503, cards |-> <<>>]}

NoProperty == [address |-> <<>>, price |-> 0, bedrooms |-> 0]

\* extract_property_from_card: None (NoProperty) without a price; the address
\* is the heading, or the city's title.
ExtractPropertyFromCard(card) ==
    IF card.price <= 0 THEN NoProperty
    ELSE [address |-> IF card.title = <<>> THEN CityTitle ELSE card.title,
          price |-> card.price,
          bedrooms |-> card.bedrooms]

\* The address as it is kept in all_properties.
AddressKey_AsWritten(address) == address

\* property_data.get('address', '').strip().lower()
AddressKey(address) == Lower(Strip(address))

\* The body of "for card in property_cards" on one card; acc holds
\* all_properties, seen_addresses and whether a card was left out as a duplicate.
AddCard(acc, card, min_bedrooms, max_price) ==
    LET property_data == ExtractPropertyFromCard(card)
        address == AddressKey(property_data.address)
    IN  IF property_data = NoProperty \/ property_data.price <= 0 THEN acc
        ELSE IF max_price # 0 /\ property_data.price > max_price THEN acc
        ELSE IF min_bedrooms # 0 /\ property_data.bedrooms < min_bedrooms THEN acc
        ELSE IF address # <<>> /\ address \notin acc.seen
             THEN [acc EXCEPT !.all = Append(acc.all, property_data),
                              !.seen = acc.seen \cup {address}]
             ELSE [acc EXCEPT !.skipped = TRUE]

\* for card in property_cards: ...; the loop is left at max_properties.
RECURSIVE AddCards(_, _, _, _, _)
AddCards(acc, cards, min_bedrooms, max_price, max_properties) ==
    IF cards = <<>> \/ Len(acc.all) >= max_properties THEN acc
    ELSE AddCards(AddCard(acc, Head(cards), min_bedrooms, max_price), Tail(cards),
                  min_bedrooms, max_price, max_properties)

\* One pass of "for url in urls": the page session.get returns for the URL.
ScrapeUrl(page) ==
    /\ w_pc = "loop"
    /\ w_url < w_urls
    /\ Len(w_all_properties) < w_max_properties
    /\ w_url' = w_url + 1
    /\ IF page.status_code # 200
       THEN UNCHANGED <<w_all_properties, w_seen_addresses, w_skipped>>
       ELSE LET acc == AddCards([all |-> w_all_properties, seen |-> w_seen_addresses,
                                 skipped |-> w_skipped],
                                page.cards, w_min_bedrooms, w_max_price, w_max_properties)
            IN  /\ w_all_properties' = acc.all
                /\ w_seen_addresses' = acc.seen
                /\ w_skipped' = acc.skipped
    /\ UNCHANGED <<w_urls, w_min_bedrooms, w_max_price, w_max_properties, w_pc>>
    /\ UNCHANGED notWorking

\* The loop ends, at the last URL or at max_properties: return all_properties.
ScrapeReturn ==
    /\ w_pc = "loop"
    /\ w_url >= w_urls \/ Len(w_all_properties) >= w_max_properties
    /\ w_pc' = "returned"
    /\ UNCHANGED <<w_urls, w_url, w_min_bedrooms, w_max_price, w_max_properties,
                   w_all_properties, w_seen_addresses, w_skipped>>
    /\ UNCHANGED notWorking

WorkingIdle ==
    /\ w_urls = 0
    /\ w_url = 0
    /\ w_min_bedrooms = 0
    /\ w_max_price = 0
    /\ w_max_properties = 0
    /\ w_all_properties = <<>>
    /\ w_seen_addresses = {}
    /\ w_skipped = FALSE
    /\ w_pc = "idle"

InitWorking ==
    /\ w_urls \in 0..MaxUrls
    /\ w_url = 0
    /\ w_min_bedrooms \in {0, 4}
    /\ w_max_price \in {0, 500}
    /\ w_max_properties \in {1, 3}
    /\ w_all_properties = <<>>
    /\ w_seen_addresses = {}
    /\ w_skipped = FALSE
    /\ w_pc = "loop"

NextWorking ==
    \/ \E page \in WorkingPages : ScrapeUrl(page)
    \/ ScrapeReturn

\* ================================================================== specifications

\* Every specification starts one part of the model and leaves the rest idle.
FetchStart == InitFetch /\ CacheIdle /\ DedupIdle /\ CrawlIdle /\ LimiterIdle /\ StoreIdle /\ FilterIdle /\ AssembleIdle /\ AreaIdle /\ PriceIdle /\ KeyIdle /\ DetailsIdle /\ LinksIdle /\ EnrichIdle /\ MigrateIdle /\ WorkingIdle
CacheStart == InitCache /\ FetchIdle /\ DedupIdle /\ CrawlIdle /\ LimiterIdle /\ StoreIdle /\ FilterIdle /\ AssembleIdle /\ AreaIdle /\ PriceIdle /\ KeyIdle /\ DetailsIdle /\ LinksIdle /\ EnrichIdle /\ MigrateIdle /\ WorkingIdle
DedupStart == InitDedup /\ FetchIdle /\ CacheIdle /\ CrawlIdle /\ LimiterIdle /\ StoreIdle /\ FilterIdle /\ AssembleIdle /\ AreaIdle /\ PriceIdle /\ KeyIdle /\ DetailsIdle /\ LinksIdle /\ EnrichIdle /\ MigrateIdle /\ WorkingIdle
CrawlStart == InitCrawl /\ FetchIdle /\ CacheIdle /\ DedupIdle /\ LimiterIdle /\ StoreIdle /\ FilterIdle /\ AssembleIdle /\ AreaIdle /\ PriceIdle /\ KeyIdle /\ DetailsIdle /\ LinksIdle /\ EnrichIdle /\ MigrateIdle /\ WorkingIdle
LimiterStart == InitLimiter /\ FetchIdle /\ CacheIdle /\ DedupIdle /\ CrawlIdle /\ StoreIdle /\ FilterIdle /\ AssembleIdle /\ AreaIdle /\ PriceIdle /\ KeyIdle /\ DetailsIdle /\ LinksIdle /\ EnrichIdle /\ MigrateIdle /\ WorkingIdle
StoreStart == InitStore /\ FetchIdle /\ CacheIdle /\ DedupIdle /\ CrawlIdle /\ LimiterIdle /\ FilterIdle /\ AssembleIdle /\ AreaIdle /\ PriceIdle /\ KeyIdle /\ DetailsIdle /\ LinksIdle /\ EnrichIdle /\ MigrateIdle /\ WorkingIdle
FilterStart == InitFilter /\ FetchIdle /\ CacheIdle /\ DedupIdle /\ CrawlIdle /\ LimiterIdle /\ StoreIdle /\ AssembleIdle /\ AreaIdle /\ PriceIdle /\ KeyIdle /\ DetailsIdle /\ LinksIdle /\ EnrichIdle /\ MigrateIdle /\ WorkingIdle
AssembleStart == InitAssemble /\ FetchIdle /\ CacheIdle /\ DedupIdle /\ CrawlIdle /\ LimiterIdle /\ StoreIdle /\ FilterIdle /\ AreaIdle /\ PriceIdle /\ KeyIdle /\ DetailsIdle /\ LinksIdle /\ EnrichIdle /\ MigrateIdle /\ WorkingIdle
AreaStart == InitArea /\ FetchIdle /\ CacheIdle /\ DedupIdle /\ CrawlIdle /\ LimiterIdle /\ StoreIdle /\ FilterIdle /\ AssembleIdle /\ PriceIdle /\ KeyIdle /\ DetailsIdle /\ LinksIdle /\ EnrichIdle /\ MigrateIdle /\ WorkingIdle
PriceStart == InitPrice /\ FetchIdle /\ CacheIdle /\ DedupIdle /\ CrawlIdle /\ LimiterIdle /\ StoreIdle /\ FilterIdle /\ AssembleIdle /\ AreaIdle /\ KeyIdle /\ DetailsIdle /\ LinksIdle /\ EnrichIdle /\ MigrateIdle /\ WorkingIdle
KeyStart == InitKey /\ FetchIdle /\ CacheIdle /\ DedupIdle /\ CrawlIdle /\ LimiterIdle /\ StoreIdle /\ FilterIdle /\ AssembleIdle /\ AreaIdle /\ PriceIdle /\ DetailsIdle /\ LinksIdle /\ EnrichIdle /\ MigrateIdle /\ WorkingIdle
DetailsStart == InitDetails /\ FetchIdle /\ CacheIdle /\ DedupIdle /\ CrawlIdle /\ LimiterIdle /\ StoreIdle /\ FilterIdle /\ AssembleIdle /\ AreaIdle /\ PriceIdle /\ KeyIdle /\ LinksIdle /\ EnrichIdle /\ MigrateIdle /\ WorkingIdle
LinksStart == InitLinks /\ FetchIdle /\ CacheIdle /\ DedupIdle /\ CrawlIdle /\ LimiterIdle /\ StoreIdle /\ FilterIdle /\ AssembleIdle /\ AreaIdle /\ PriceIdle /\ KeyIdle /\ DetailsIdle /\ EnrichIdle /\ MigrateIdle /\ WorkingIdle
EnrichStart == InitEnrich /\ FetchIdle /\ CacheIdle /\ DedupIdle /\ CrawlIdle /\ LimiterIdle /\ StoreIdle /\ FilterIdle /\ AssembleIdle /\ AreaIdle /\ PriceIdle /\ KeyIdle /\ DetailsIdle /\ LinksIdle /\ MigrateIdle /\ WorkingIdle
MigrateStart == InitMigrate /\ FetchIdle /\ CacheIdle /\ DedupIdle /\ CrawlIdle /\ LimiterIdle /\ StoreIdle /\ FilterIdle /\ AssembleIdle /\ AreaIdle /\ PriceIdle /\ KeyIdle /\ DetailsIdle /\ LinksIdle /\ EnrichIdle /\ WorkingIdle
WorkingStart == InitWorking /\ FetchIdle /\ CacheIdle /\ DedupIdle /\ CrawlIdle /\ LimiterIdle /\ StoreIdle /\ FilterIdle /\ AssembleIdle /\ AreaIdle /\ PriceIdle /\ KeyIdle /\ DetailsIdle /\ LinksIdle /\ EnrichIdle /\ MigrateIdle

SpecFetch == FetchStart /\ [][NextFetch]_vars

SpecCache == CacheStart /\ [][NextCache]_vars

SpecDedup == DedupStart /\ [][NextDedup]_vars

SpecCrawl == CrawlStart /\ [][NextCrawl]_vars

SpecLimiter == LimiterStart /\ [][NextLimiter]_vars

SpecStore == StoreStart /\ [][NextStore]_vars

SpecFilter == FilterStart /\ [][NextFilter]_vars

SpecAssemble == AssembleStart /\ [][NextAssemble]_vars

SpecArea == AreaStart /\ [][NextArea]_vars

SpecPrice == PriceStart /\ [][NextPrice]_vars

SpecKey == KeyStart /\ [][NextKey]_vars

SpecDetails == DetailsStart /\ [][NextDetails]_vars

SpecLinks == LinksStart /\ [][NextLinks]_vars

SpecEnrich == EnrichStart /\ [][NextEnrich]_vars

SpecMigrate == MigrateStart /\ [][NextMigrate]_vars

SpecWorking == WorkingStart /\ [][NextWorking]_vars

\* ================================================================== claims

\* ---- Fetch (SpecFetch)

\* The largest delay the backoff formula of the client can produce in a call with
\* max attempts: the code configures no cap, this is the ceiling the formula has.
BackoffCeiling(client, max) ==
    IF client = "get_html"
    THEN GetHtmlBackoffBase(Max(max, 1) - 1) + 9
    ELSE Pow2(max) * DEFAULT_BACKOFF_FACTOR + 6

C7_PermanentNotRetried ==
    (f_last.kind = "http" /\ IsPermanentStatus(f_last.status))
        => ~(f_pc = "loop" /\ f_attempt < f_max)

\* C8: a 403 or 429 response is retryable: while attempts remain the call is
\* still in its retry loop after it, the blocked response is not its result.
C8_BlockedIsRetried ==
    (f_last.kind = "http" /\ IsBlockedStatus(f_last.status) /\ f_tries < f_max)
        => f_pc = "loop"

WithinTTL(call) == call.existed /\ call.at - call.mtimeBefore < k_ttl

\* C1: a second call with the same configuration and no force-refresh, made while
\* the entry is within its TTL, issues no network call and returns the records the
\* first call returned.
C1_SecondCallFromCache ==
    (k_n >= 2 /\ ~k_prev.raised /\ ~k_last.refresh /\ WithinTTL(k_last))
        => (k_last.net = 0 /\ ~k_last.raised /\ k_last.recs = k_prev.recs)

\* C6: cache_fresh reports an entry fresh iff now - writtenAt < TTL.
C6_FreshIffWithinTTL ==
    (k_n >= 1 /\ k_last.checked) => (k_last.fresh <=> WithinTTL(k_last))


\* ---- Dedup (SpecDedup)

\* The identity signature of the specification: (normalizedURL, price, bedrooms).
SpecSig(r) == <<NormalizeUrl(r.property_url), r.price, r.bedrooms>>

\* The signature each pass is written to use: the URL as harvested, price and
\* bedrooms in scrape_primelocation; normalised title, price and listing id in
\* deduplicate.
CodeSig(fn, r) ==
    IF fn = "deduplicate"
    THEN <<CollapseSpaces(Lower(Strip(r.title))), (IF r.price = -1 THEN 0 ELSE r.price),
           r.listing_id>>
    ELSE <<r.property_url.path, r.property_url.query, r.price, r.bedrooms>>

Kept == {d_keep[n] : n \in 1..Len(d_keep)}

C2_InFlightWithinLimit ==
    /\ c_pc = "pool" => InFlight <= c_limit
    /\ c_pc # "pool" => InFlight <= 1
    /\ c_env.workers >= 1 => InFlight <= c_env.workers

\* A pool of one is busy and a submitted task waits for it.
C2_Witness ==
    /\ c_pc = "pool"
    /\ c_limit = 1
    /\ Running = 1
    /\ \E i \in 1..Len(c_fut) : c_fut[i].st = "pending"

\* The records of the detail pages that were fetched and passed the filters.
Collected == {c_fut[i].out.rec : i \in {k \in 1..Len(c_fut) :
                 c_fut[k].out.kind = "ok" /\ PassesFilters(c_fut[k].out.rec, Config)}}

\* C5: a listing page or a detail page that fails never aborts the run:
\* scrape_primelocation raises only for a worker count no pool accepts, a run
\* that has not ended can always take a step, and a run that ends returns
\* every record collected from the pages that did not fail.
C5_UrlFailureNeverAborts ==
    /\ c_pc = "raised" => c_cause = "config" /\ c_env.workers <= 0
    /\ c_pc \in {"start", "discover", "listing", "pool"} => ENABLED NextCrawl
    /\ (c_pc = "done" /\ ~c_ret.cached) =>
          /\ \A r \in Collected : \E i \in 1..Len(c_ret.recs) : c_ret.recs[i] = r
          /\ \A i \in 1..Len(c_ret.recs) : c_ret.recs[i] \in Collected

\* A listing page and a detail page ended Blocked, another detail page failed
\* on the network, and the run returned the record of a third.
C5_Witness ==
    /\ c_pc = "done"
    /\ ~c_ret.cached
    /\ c_ret.recs # <<>>
    /\ \E i \in 1..Len(c_fut) : c_fut[i].out.kind = "network"
    /\ c_blocks > Cardinality({i \in 1..Len(c_fut) : c_fut[i].out.kind = "blocked"})

C11_PermitsSpaced == r_gap = -1 \/ r_gap >= r_delay

\* ------------------------------------------------------------------ cache file

\* C12: a run that reads the cache file while another run writes it reads either
\* the complete old entry or the complete new one, never a partly written file.
C12_ReadsOldOrNew ==
    s_rpc \in {"cached", "raised"} =>
        \/ s_read = Document(s_old)
        \/ s_read = [text |-> JsonDump(s_wrecs), whole |-> TRUE]

\* C13: a cache file that does not decode is treated as not found: the run goes
\* on to crawl and does not raise.
C13_CorruptIsMiss == s_rpc # "raised"

\* ------------------------------------------------------------------ crawl run and cache

\* C14: a run that finds the entry stale (now - writtenAt >= TTL) or is told to
\* refresh does not return the cached records: it crawls and overwrites the
\* entry, and when it ends the cache file holds exactly the records it returned.
C14_StaleOrRefreshRecrawls ==
    c_pc = "done" =>
        IF c_ret.cached
        THEN ~c_env.refresh /\ c_env.now - c_file.mtime < c_env.ttl
        ELSE c_file.exists /\ JsonLoad(c_file.text) = c_ret.recs

\* C15: no listing page is fetched more than once in a run, whatever pages are
\* discovered and whichever fetches fail.
C15_ListingFetchedOnce == \A p \in DOMAIN c_fetched : c_fetched[p] <= 1

\* ------------------------------------------------------------------ filters

\* C16 (as stated): every record of the output has a price that does not exceed
\* maxPrice, at least minBedrooms bedrooms, at least baths_min bathrooms when
\* that filter is set, and is not in an Article 4 area.
C16_OutputPassesFilters ==
    \A i \in 1..Len(x_results) :
        LET r == x_results[i] IN
        /\ x_cfg.max_price # -1 => r.price <= x_cfg.max_price
        /\ r.bedrooms # -1 /\ r.bedrooms >= x_cfg.min_beds
        /\ x_cfg.baths_min # -1 => r.bathrooms # -1 /\ r.bathrooms >= x_cfg.baths_min
        /\ ~r.article4

\* C16 (amended): every record of the output has a price that does not exceed
\* maxPrice when maxPrice is set and not 0, at least minBedrooms bedrooms, at
\* least baths_min bathrooms when that filter is set and the bathrooms of the
\* record are known, and is not in an Article 4 area; and every record that
\* meets these conditions is in the output.
C16_OutputPassesFiltersWhenKnown ==
    /\ \A i \in 1..Len(x_results) :
          LET r == x_results[i] IN
          /\ x_cfg.max_price \notin {-1, 0} => r.price <= x_cfg.max_price
          /\ r.bedrooms # -1 /\ r.bedrooms >= x_cfg.min_beds
          /\ x_cfg.baths_min # -1 /\ r.bathrooms # -1 => r.bathrooms >= x_cfg.baths_min
          /\ ~r.article4
    /\ x_pc = "skipped" =>
          \/ x_cfg.max_price \notin {-1, 0} /\ x_rec.price > x_cfg.max_price
          \/ x_rec.bedrooms = -1 \/ x_rec.bedrooms < x_cfg.min_beds
          \/ x_cfg.baths_min # -1 /\ x_rec.bathrooms # -1 /\ x_rec.bathrooms < x_cfg.baths_min
          \/ x_rec.article4

\* A record of unknown bathrooms is kept under a baths_min filter, with a price
\* at the limit.
C16_Witness ==
    /\ x_pc = "kept"
    /\ x_cfg.baths_min = 2
    /\ x_cfg.max_price = 400
    /\ x_rec.bathrooms = -1
    /\ x_rec.price = 400
    /\ x_results = <<x_rec>>

\* ------------------------------------------------------------------ unresolved price

\* C17: no record whose price is unresolved (price <= 0 or missing) is in the
\* output of a run.
C17_NoUnpricedRecord ==
    c_pc = "done" => \A i \in 1..Len(c_ret.recs) : c_ret.recs[i].price > 0

\* ------------------------------------------------------------------ de-duplication pass

Out == {a_out[n] : n \in 1..Len(a_out)}

\* The order of the claim: price ascending, then bedrooms ascending, an unknown
\* price or bedroom count ranking as 0.
Rank(l, field) == IF l[field] = -1 THEN 0 ELSE l[field]

RanksBefore(x, y) ==
    \/ Rank(x, "price") < Rank(y, "price")
    \/ Rank(x, "price") = Rank(y, "price") /\ Rank(x, "bedrooms") < Rank(y, "bedrooms")

RanksWith(x, y) ==
    Rank(x, "price") = Rank(y, "price") /\ Rank(x, "bedrooms") = Rank(y, "bedrooms")

\* The output is a stable sort of the input in that order, cut at its end.
SortedStablePrefix ==
    /\ Out \subseteq 1..Len(a_in)
    /\ \A m, n \in 1..Len(a_out) : m < n =>
          /\ a_out[m] # a_out[n]
          /\ ~RanksBefore(a_in[a_out[n]], a_in[a_out[m]])
          /\ RanksWith(a_in[a_out[m]], a_in[a_out[n]]) => a_out[m] < a_out[n]
    /\ \A p \in (1..Len(a_in)) \ Out : \A q \in Out :
          \/ RanksBefore(a_in[q], a_in[p])
          \/ RanksWith(a_in[q], a_in[p]) /\ q < p

C20_SqftToNearestSqm ==
    g_pc = "returned" /\ g_text.unit = "sq ft" =>
        \E sqm \in 0..g_text.n :
            /\ g_area = 100 * sqm
            /\ 2 * (sqm * 1000000 - g_text.n * 92903) <= 1000000
            /\ 2 * (g_text.n * 92903 - sqm * 1000000) <= 1000000

\* ------------------------------------------------------------------ price extraction

\* The number tokens of the text.
NumberTokens == {i \in 1..Len(p_text) : p_text[i].chars # <<>>}

\* C21: extract_price returns the value of the pound-prefixed comma-grouped token
\* whatever other text surrounds it, and when the text has no pound sign and its
\* only number is comma-grouped it returns the value of that number.
C21_PriceOfToken ==
    p_pc = "returned" =>
        /\ \A i \in NumberTokens :
              p_text[i] = Pounds350k => p_price = <<"3", "5", "0", "0", "0", "0">>
        /\ (\A i \in NumberTokens : p_text[i] = Grouped600k) /\ NumberTokens # {} =>
              p_price = <<"6", "0", "0", "0", "0", "0">>

\* ------------------------------------------------------------------ cache key

\* Two dicts hold the same items.
SameItems(d1, d2) == {d1[i] : i \in 1..Len(d1)} = {d2[i] : i \in 1..Len(d2)}

\* C22: the cache path is a function of the city slug, min_beds, max_price and
\* the set of filters only: a call with the same values and the same filters in
\* any other order yields the path this call returned.
C22_PathIgnoresFilterOrder ==
    h_pc = "returned" =>
        \A d \in FilterDicts :
            SameItems(d, h_filters) => CachePathFor(h_city, h_beds, h_price, d) = h_path

\* A call returned whose filters have two items, so another order exists.
C22_Witness ==
    /\ h_pc = "returned"
    /\ Len(h_filters) = 2
    /\ \E d \in FilterDicts : d # h_filters /\ SameItems(d, h_filters)

\* ------------------------------------------------------------------ the run: caps and phases

\* The detail pages whose fetch has begun.
DetailFetched == {i \in 1..Len(c_fut) : c_fut[i].st # "pending"}

Phase(pc) ==
    IF pc \in {"idle", "start"} THEN 1
    ELSE IF pc \in {"discover", "listing"} THEN 2
    ELSE IF pc = "pool" THEN 3
    ELSE 4

\* The search-page fetches issued so far.
SearchFetches == IF c_pc = "idle" THEN 0 ELSE c_fetched[1] + c_fetched[2] + c_fetched[3] + c_fetched[4]

\* The detail fetches under way or not yet begun.
DetailUnfinished == {i \in 1..Len(c_fut) : c_fut[i].st \in {"pending", "running"}}

\* C24: a crawl run passes through Seeded, Discovering, FetchingDetails and Done
\* in that order and never goes back: no detail page is fetched before discovery
\* has stopped, no search page is fetched after it, and the cache is written only
\* after every detail fetch has finished.
C24_PhasesInOrder ==
    /\ [](Phase(c_pc) <= 2 => DetailFetched = {})
    /\ [][/\ Phase(c_pc') >= Phase(c_pc)
          /\ Phase(c_pc') <= Phase(c_pc) + 1 \/ Phase(c_pc') = 4
          /\ Phase(c_pc) >= 3 => SearchFetches' = SearchFetches
          /\ c_file' # c_file => Phase(c_pc) = 3 /\ DetailUnfinished = {}]_vars

\* A run that fetched search pages and detail pages has written the cache.
C24_Witness ==
    /\ c_pc = "done"
    /\ ~c_ret.cached
    /\ SearchFetches >= 2
    /\ Len(c_fut) >= 2
    /\ c_file.mtime = c_env.now

\* C25: the number of search-page fetches the discovery loop issues never exceeds
\* the total page cap MAX_LIST_PAGES_TOTAL, also when pages yield new pagination
\* URLs and when fetches fail repeatedly.
C25_SearchFetchesWithinCap == SearchFetches <= MaxListPagesTotal

\* The pages the loop itself takes from the queue and fetches stay within the cap.
C25_ClaimedPagesWithinCap == c_pages <= MaxListPagesTotal /\ Cardinality(c_seen) <= MaxListPagesTotal

\* ------------------------------------------------------------------ the reported failure

\* C26: when get_html gives up after max_attempts failures, the failure it raises
\* is that of the final attempt: the status of the final response when the final
\* attempt got one, the exception of the final attempt when it raised.
C26_ReportsFinalAttempt ==
    f_client = "get_html" /\ f_pc = "raised" /\ f_tries >= 1 =>
        /\ f_last.kind = "http" =>
              f_result = "RuntimeError_status" /\ f_lastStatus = f_last.status
        /\ f_last.kind = "neterr" => f_result = "last_exc"

\* ------------------------------------------------------------------ adaptive concurrency

HasToken(tok) == \E i \in 1..Len(t_text) : t_text[i] = Number(tok)

\* C28: parse_details takes the price from the pound-prefixed token of the text
\* first, from the JSON-LD offer price only when the text has no such token, and
\* from a bare comma-grouped number only when both are absent.
C28_PriceTextFirst ==
    t_pc = "returned" =>
        t_rec.price =
            IF HasToken(Pounds350k) THEN <<"3", "5", "0", "0", "0", "0">>
            ELSE IF t_ld.price = LdPrice250k THEN LdPrice250k
            ELSE IF HasToken(Grouped600k) THEN <<"6", "0", "0", "0", "0", "0">>
            ELSE Zero

\* C28 (amended): parse_details takes the price from the JSON-LD offer price
\* first (the int of its digits), from the pound-prefixed token of the text only
\* when the offer has no price with digits, from a bare comma-grouped number
\* only when the text has no pound token either, and it is 0 when all are absent.
C28_PriceLdFirst ==
    t_pc = "returned" =>
        t_rec.price =
            IF t_ld.price = LdPrice250k THEN LdPrice250k
            ELSE IF HasToken(Pounds350k) THEN <<"3", "5", "0", "0", "0", "0">>
            ELSE IF HasToken(Grouped600k) THEN <<"6", "0", "0", "0", "0", "0">>
            ELSE Zero

\* The page has an offer price and a pound token; the record has the offer price.
C28_Witness ==
    /\ t_pc = "returned"
    /\ t_ld.price = LdPrice250k
    /\ HasToken(Pounds350k)
    /\ t_rec.price = LdPrice250k

\* C29: parse_details takes the bedrooms and the bathrooms from the "<n> bed" /
\* "<n> bath" token of the text first and from JSON-LD only when the text has no
\* such token.
C29_CountsTextFirst ==
    t_pc = "returned" =>
        /\ t_rec.bedrooms = IF TextCount("bed", t_text) # 0 - 1
                            THEN TextCount("bed", t_text) ELSE t_ld.bedrooms
        /\ t_rec.bathrooms = IF TextCount("bath", t_text) # 0 - 1
                             THEN TextCount("bath", t_text) ELSE t_ld.bathrooms

\* C29 (amended): parse_details takes the bedrooms and the bathrooms from
\* JSON-LD first, and from the first "<n> bed" / "<n> bath" token of the text
\* only when JSON-LD has no value that converts to an int; a count of 0 read
\* from the text is None.
C29_CountsLdFirst ==
    t_pc = "returned" =>
        /\ t_rec.bedrooms = IF t_ld.bedrooms # 0 - 1
                            THEN t_ld.bedrooms ELSE TextCount("bed", t_text)
        /\ t_rec.bathrooms = IF t_ld.bathrooms # 0 - 1
                             THEN t_ld.bathrooms ELSE TextCount("bath", t_text)
        /\ t_rec.bedrooms = 0 => t_ld.bedrooms = 0

\* The page says "3 bed" and "3 bath", JSON-LD says 4 and 2; the record has 4 and 2.
C29_Witness ==
    /\ t_pc = "returned"
    /\ TextCount("bed", t_text) = 3
    /\ TextCount("bath", t_text) = 3
    /\ t_ld.bedrooms = 4
    /\ t_ld.bathrooms = 2
    /\ t_rec.bedrooms = 4
    /\ t_rec.bathrooms = 2

\* C30: when a text has both a figure in square metres and a figure in square
\* feet, every area extractor returns the figure in square metres.
C30_SqmFigureWins == g_pc = "returned" /\ g_text.unit = "both" => g_area = 100 * g_text.m

\* ------------------------------------------------------------------ the links of a listing page

\* The detail links of the page in the order the three sources give them: the
\* anchors without their query, the JSON-LD urls as written, the text matches.
Found ==
    LET a == [i \in 1..Len(l_page.anchors) |-> Url(l_page.anchors[i].path, "")]
        t == [i \in 1..Len(l_page.text) |-> Url(l_page.text[i], "")]
    IN  SelectSeq(a \o l_page.ld \o t, LAMBDA u : u.path # 0)

FirstAt(seq, u) == CHOOSE i \in 1..Len(seq) : seq[i] = u /\ \A j \in 1..(i - 1) : seq[j] # u

\* C31: collect_detail_links returns the detail links of the anchors, then of
\* the structured-data blocks, then of the text scan as one list in which no URL
\* appears twice and first-seen order is kept; a page with no match yields the
\* empty list.
C31_MergedOnceInOrder ==
    l_pc = "returned" =>
        /\ \A i, j \in 1..Len(l_links) : i # j => l_links[i] # l_links[j]
        /\ {l_links[i] : i \in 1..Len(l_links)} = {Found[i] : i \in 1..Len(Found)}
        /\ \A i, j \in 1..Len(l_links) :
              i < j => FirstAt(Found, l_links[i]) < FirstAt(Found, l_links[j])
        /\ Found = <<>> => l_links = <<>>

\* A link found by an anchor, again by a JSON-LD block and again in the text is
\* returned once, in front of a link found later.
C31_Witness ==
    /\ l_pc = "returned"
    /\ Len(l_links) = 2
    /\ Len(Found) >= 4
    /\ \E i \in 1..Len(l_page.anchors), j \in 1..Len(l_page.ld), k \in 1..Len(l_page.text) :
          /\ Url(l_page.anchors[i].path, "") = l_links[1]
          /\ l_page.ld[j] = l_links[1]
          /\ Url(l_page.text[k], "") = l_links[1]

\* ------------------------------------------------------------------ detail enrichment

\* C32: the enrichment of a listing only supplies fields that were missing:
\* every field that was set before it has the same value afterwards.
C32_SetFieldsKept ==
    \A i \in e_done :
        /\ e_orig[i].title # <<>> => e_list[i].title = e_orig[i].title
        /\ e_orig[i].price > 0 => e_list[i].price = e_orig[i].price
        /\ e_orig[i].bedrooms > 0 => e_list[i].bedrooms = e_orig[i].bedrooms
        /\ e_orig[i].agent_name # "" => e_list[i].agent_name = e_orig[i].agent_name

\* The price and the bedrooms of a listing, once set, are kept by the enrichment.
C32_PriceAndBedroomsKept ==
    \A i \in e_done :
        /\ e_orig[i].price > 0 => e_list[i].price = e_orig[i].price
        /\ e_orig[i].bedrooms > 0 => e_list[i].bedrooms = e_orig[i].bedrooms

\* C35: the list scrape_properties returns never holds two listings with the
\* same key (normalised title, price, listing id), also after the detail
\* enrichment has run.
C35_ReturnedKeysDistinct ==
    e_pc = "returned" =>
        \A i, j \in 1..Len(e_out) :
            i # j => <<CollapseSpaces(Lower(Strip(e_out[i].title))), e_out[i].price,
                       e_out[i].listing_id>>
                     # <<CollapseSpaces(Lower(Strip(e_out[j].title))), e_out[j].price,
                         e_out[j].listing_id>>

\* Without enrichment the returned keys are distinct.
C35_DistinctWithoutEnrichment == e_n = 0 => C35_ReturnedKeysDistinct

\* ------------------------------------------------------------------ accumulation of records

\* The futures handed to the main thread whose fetch succeeded and whose record
\* passes the filters.
Contributors ==
    {i \in 1..Len(c_fut) : /\ c_fut[i].st = "collected"
                           /\ c_fut[i].out.kind = "ok"
                           /\ PassesFilters(c_fut[i].out.rec, Config)}

\* C33: results is append-only and, for every interleaving of the detail
\* workers, holds exactly one record for each detail URL whose fetch succeeded
\* and whose record passes the filters: none is lost or overwritten.
C33_OneRecordPerPassingUrl ==
    /\ [](c_pc \in {"pool", "done"} =>
            /\ Len(c_results) = Cardinality(Contributors)
            /\ \A i \in Contributors :
                  Cardinality({k \in 1..Len(c_results) : c_results[k] = c_fut[i].out.rec}) = 1)
    /\ [][/\ Len(c_results') >= Len(c_results)
          /\ SubSeq(c_results', 1, Len(c_results)) = c_results]_vars

\* A pool of two or more workers has ended two fetches and the records of both
\* are in results.
C33_Witness ==
    /\ c_pc = "pool"
    /\ c_limit >= 2
    /\ Len(c_results) = 2
    /\ Cardinality(Contributors) = 2

\* ------------------------------------------------------------------ the detail links of a run

\* C36: the list of detail links handed to the worker pool contains no
\* duplicate, whichever path added the links (the discovery loop or the
\* fallback taken after repeated listing-page failures), so no detail URL is
\* fetched more than once in a run.
C36_DetailLinksDistinct ==
    /\ \A i, j \in 1..Len(c_links) : i # j => c_links[i] # c_links[j]
    /\ \A i, j \in 1..Len(c_fut) : i # j => c_fut[i].url # c_fut[j].url

\* The three seed pages failed, the fallback fetched the first two again and
\* found two links, and the pool got both.
C36_Witness ==
    /\ c_pc = "pool"
    /\ Len(c_fut) = 2
    /\ c_fetched[1] = 2
    /\ c_fetched[2] = 2
    /\ c_fetched[3] = 1
    /\ c_fetched[4] = 0

\* ------------------------------------------------------------------ the empty-page stop

\* C34: once STOP_AFTER_EMPTY_PAGES search pages in a row have been fetched with
\* no detail link in them, no further search page is fetched, and a page that
\* yields a link sets the count back to zero.
C34_StopsAfterEmptyPages ==
    /\ [](c_dry <= StopAfterEmptyPages)
    /\ [][c_dry >= StopAfterEmptyPages => SearchFetches' = SearchFetches]_vars
    /\ [][c_pc = "listing" /\ Len(c_links') > Len(c_links) => c_empty' = 0 /\ c_dry' = 0]_vars

\* The pages the loop itself takes from the queue: once empty_in_a_row reaches
\* the threshold the loop is left and no search page is fetched, and a page with
\* a new link sets empty_in_a_row back to zero.
C34_LoopStopsAfterEmptyPages ==
    /\ [](c_empty <= StopAfterEmptyPages)
    /\ [](c_pc \in {"discover", "listing"} /\ c_empty >= StopAfterEmptyPages => c_break)
    /\ [][c_break => SearchFetches' = SearchFetches]_vars
    /\ [][c_pc = "listing" /\ c_failed' = 0 /\ Len(c_links') > Len(c_links) =>
             c_empty' = 0]_vars

\* ------------------------------------------------------------------ cache key: one file per configuration

\* Another configuration for the city of this call: it differs in min_beds, in
\* max_price or in the filters.
Differs(min_beds, max_price, filters) ==
    \/ min_beds # h_beds
    \/ max_price # h_price
    \/ ~SameItems(filters, h_filters)

\* C37: two configurations for the same city that differ in min_beds, in
\* max_price or in a filter never get the same cache file, also when a filter of
\* the keywords blob is named min_beds or max_price.
C37_ConfigurationsNeverShareFile ==
    h_pc = "returned" =>
        \A b \in MinBeds, p \in MaxPrices, d \in FilterDicts :
            Differs(b, p, d) => CachePathFor(h_city, b, p, d) # h_path

\* Without a filter named min_beds or max_price the configurations that differ
\* get different files.
C37_DistinctWithoutShadowingFilter ==
    h_pc = "returned" /\ ~HasKey(h_filters, "min_beds") /\ ~HasKey(h_filters, "max_price") =>
        \A b \in MinBeds, p \in MaxPrices, d \in FilterDicts :
            /\ ~HasKey(d, "min_beds") /\ ~HasKey(d, "max_price")
            /\ Differs(b, p, d)
            => CachePathFor(h_city, b, p, d) # h_path

\* ------------------------------------------------------------------ the migration backup

\* C38: when migrate_cache_file has migrated a cache file, the .backup file
\* holds the contents the cache file had before the migration.
C38_BackupHoldsOldContents ==
    m_pc = "returned" /\ m_ret => m_backup = m_before

\* What the .backup file holds after a migration is the migrated list, the
\* contents of the cache file after the call; a file that is not migrated gets
\* no .backup file and is left as it was.
C38_BackupHoldsMigratedContents ==
    m_pc = "returned" =>
        IF m_ret
        THEN /\ m_backup = m_file
             /\ m_file = ListFile(MigratedData(m_before.data))
             /\ m_file # m_before
        ELSE m_backup = NoJsonFile /\ m_file = m_before

\* ------------------------------------------------------------------ one property per address

\* C39: all_properties of scrape_property_details never holds two properties
\* whose addresses are the same once trimmed and lower-cased.
C39_AddressesDistinct ==
    \A i, j \in 1..Len(w_all_properties) :
        i # j => Lower(Strip(w_all_properties[i].address))
                    # Lower(Strip(w_all_properties[j].address))

\* Two properties are held, one with an address in capitals or with a space at
\* its end, and a card with an address already held was left out.
C39_Witness ==
    /\ Len(w_all_properties) >= 2
    /\ w_skipped
    /\ \E i \in 1..Len(w_all_properties) :
          w_all_properties[i].address # Lower(Strip(w_all_properties[i].address))

=============================================================================
